---------------------------- MODULE Spec2Model ----------------------------
(***************************************************************************)
(* A model of EAS.js: the FIPS translator (translateFips), the SAME header *)
(* decoder (decodeSame), the originator and event translators and the      *)
(* alert generator (generateEASAlert).                                     *)
(*                                                                         *)
(* Texts the program reads character by character (the header, a location  *)
(* code, a dictionary value that is split on ',') are sequences of         *)
(* one-character strings.  Texts the program only builds (the fields of a  *)
(* result) are strings.  A call either returns a value or throws: both are *)
(* one record [ok, error, detail, value], where error is the key of the    *)
(* message in locals/en_us.json and detail the text appended to it.        *)
(***************************************************************************)
EXTENDS Integers, Sequences, FiniteSets, TLC

VARIABLES
    pc,         \* which call is due: "fips", "decode", or "done"
    SUBDIV,     \* the subdivision table of EASData.json loaded by the process
    fipsIn,     \* the argument of translateFips
    fipsOut,    \* what translateFips returned or threw
    data,       \* the argument of decodeSame
    env,        \* env[p]: clock, time zone and locale of execution p
    result,     \* result[p]: what decodeSame returned or threw in execution p
    codeIn,     \* the argument of origTranslator and eventTranslator
    origOut,    \* what origTranslator returned or threw
    eventOut,   \* what eventTranslator returned or threw
    args,       \* args[c]: the arguments of call c of generateEASAlert
    gen,        \* gen[c]: where call c stands, and its local variables
    genOut,     \* genOut[c]: what call c returned or threw
    jobs,       \* jobs[c]: the transcoder process launched by call c
    disk,       \* the files of the working directory
    effects     \* what the calls did to the outside, in order

translatorVars == <<codeIn, origOut, eventOut>>

generatorVars == <<args, gen, genOut, jobs, disk, effects>>

vars == <<pc, SUBDIV, fipsIn, fipsOut, data, env, result, translatorVars,
          generatorVars>>

-----------------------------------------------------------------------------
(* Bounds of the model. *)

\* extra characters appended to a location code
MaxPad == 1
\* location segments of a header before the one that carries '+'
MaxLocs == 1

-----------------------------------------------------------------------------
(* JavaScript strings. *)

Min(a, b) == IF a < b THEN a ELSE b

Digits == <<"0", "1", "2", "3", "4", "5", "6", "7", "8", "9">>

IsDigit(c) == \E i \in 1..10 : Digits[i] = c

DigitVal(c) == (CHOOSE i \in 1..10 : Digits[i] = c) - 1

IsSpace(c) == c = " "

\* the string made of the characters of s
RECURSIVE Str(_)
Str(s) == IF s = <<>> THEN "" ELSE Head(s) \o Str(Tail(s))

\* String.prototype.slice(a, b) for 0 <= a, 0 <= b
Slice(s, a, b) == SubSeq(s, a + 1, Min(b, Len(s)))

\* String.prototype.slice(a)
SliceFrom(s, a) == SubSeq(s, a + 1, Len(s))

\* String.prototype.endsWith
EndsWith(s, t) ==
    /\ Len(t) <= Len(s)
    /\ SubSeq(s, Len(s) - Len(t) + 1, Len(s)) = t

\* String.prototype.includes, for a one-character needle
Includes(s, c) == \E i \in 1..Len(s) : s[i] = c

RECURSIVE TrimStart(_)
TrimStart(s) ==
    IF s # <<>> /\ IsSpace(Head(s)) THEN TrimStart(Tail(s)) ELSE s

RECURSIVE TrimEnd(_)
TrimEnd(s) ==
    IF s # <<>> /\ IsSpace(s[Len(s)]) THEN TrimEnd(SubSeq(s, 1, Len(s) - 1)) ELSE s

\* String.prototype.trim
Trim(s) == TrimEnd(TrimStart(s))

\* String.prototype.split, for a one-character separator
RECURSIVE SplitFrom(_, _, _, _)
SplitFrom(s, sep, start, i) ==
    IF i > Len(s) THEN <<SubSeq(s, start, Len(s))>>
    ELSE IF s[i] = sep
         THEN <<SubSeq(s, start, i - 1)>> \o SplitFrom(s, sep, i + 1, i + 1)
         ELSE SplitFrom(s, sep, start, i + 1)

Split(s, sep) == SplitFrom(s, sep, 1, 1)

\* Array.prototype.join on an array of character sequences
RECURSIVE Join(_, _)
Join(parts, sep) ==
    IF parts = <<>> THEN <<>>
    ELSE IF Len(parts) = 1 THEN parts[1]
    ELSE parts[1] \o sep \o Join(Tail(parts), sep)

\* Array.prototype.join on an array of strings
RECURSIVE JoinStr(_, _)
JoinStr(parts, sep) ==
    IF parts = <<>> THEN ""
    ELSE IF Len(parts) = 1 THEN parts[1]
    ELSE parts[1] \o sep \o JoinStr(Tail(parts), sep)

\* /^\d{6}$/.test(s)
IsSixDigits(s) == Len(s) = 6 /\ \A i \in 1..6 : IsDigit(s[i])

\* a JavaScript value handed to a function: a string, or something else
StringValue(s) == [type |-> "string", s |-> s]
NonString(t) == [type |-> t, s |-> <<>>]

\* typeof data !== 'string' || data.trim() === ''
IsNoData(d) == d.type # "string" \/ Trim(d.s) = <<>>

-----------------------------------------------------------------------------
(* Results. *)

NoValue == [none |-> TRUE]

Threw(kind, detail) == [ok |-> FALSE, error |-> kind, detail |-> detail, value |-> NoValue]

Returned(v) == [ok |-> TRUE, error |-> "", detail |-> "", value |-> v]

NotCalled == [ok |-> FALSE, error |-> "not called", detail |-> "", value |-> NoValue]

-----------------------------------------------------------------------------
(* EASData.json: the dictionaries. *)

ORGS ==
    ("WXR" :> "The National Weather Service has issued ") @@
    ("CIV" :> "The Civil Authorities have issued ")

\* the table origTranslator reads
ORGS2 ==
    ("WXR" :> "National Weather Service") @@
    ("CIV" :> "Civil Authorities")

EVENTS ==
    ("TOR" :> "Tornado Warning") @@
    ("SQW" :> "Snow Squall Warning") @@
    ("TSW" :> "Tsunami Warning") @@
    ("ADR" :> "Administrative Message")

SAMECounties ==
    ("30013" :> <<"C", "a", "s", "c", "a", "d", "e", ",", " ", "M", "T">>) @@
    ("27133" :> <<"R", "o", "c", "k", ",", " ", "M", "N">>) @@
    ("06081" :> <<"S", "a", "n", " ", "M", "a", "t", "e", "o", ",", " ", "C", "A">>)

\* a state-wide entry: a county code that ends with 000
SAMEStatewide ==
    ("30000" :> <<"M", "o", "n", "t", "a", "n", "a">>)

SAME == SAMECounties @@ SAMEStatewide

\* The subdivision tables a process may have loaded: '0' present, '0'
\* absent, and a table that lacks a digit other than '0'.
SubdivFull ==
    ("0" :> "All") @@ ("1" :> "Northwest ") @@ ("9" :> "Southeast ")

SubdivNoZero ==
    ("1" :> "Northwest ") @@ ("9" :> "Southeast ")

SubdivSparse ==
    ("0" :> "All") @@ ("1" :> "Northwest ")

SubdivTables == {SubdivFull, SubdivNoZero, SubdivSparse}

-----------------------------------------------------------------------------
(* translateFips *)

\* const [countyRaw, regionRaw] = dataResponse.split(','), trimmed
countyOf(dataResponse) == Str(Trim(Split(dataResponse, ",")[1]))

\* mutant: a state-wide entry is treated like a county
regionOfAlwaysSplit(dataResponse, isStatewide, county) ==
    LET pieces == Split(dataResponse, ",")
    IN  IF Len(pieces) >= 2 THEN Str(Trim(pieces[2])) ELSE "Unknown"

regionOf(dataResponse, isStatewide, county) ==
    LET pieces == Split(dataResponse, ",")
    IN  IF isStatewide THEN county
        ELSE IF Len(pieces) >= 2 THEN Str(Trim(pieces[2]))
        ELSE "Unknown"

\* mutant: no 'All' when the table has no '0'
subdivisionOfNoDefault(table, subdivisionCode) ==
    IF subdivisionCode \in DOMAIN table THEN table[subdivisionCode] ELSE ""

\* the subdivision text, "" when the lookup gives undefined
subdivisionOf(table, subdivisionCode) ==
    IF subdivisionCode \in DOMAIN table THEN table[subdivisionCode]
    ELSE IF subdivisionCode = "0" THEN "All"
    ELSE ""

translateFips(table, d) ==
    IF IsNoData(d) THEN Threw("nodata", "")
    ELSE IF ~IsSixDigits(d.s) THEN Threw("fipsinvalid", "")
    ELSE
        LET subdivisionCode == d.s[1]
            fipsCode == Str(Slice(d.s, 1, 6))
        IN  IF fipsCode \notin DOMAIN SAME THEN Threw("fipsinvalid", "")
            ELSE
                LET dataResponse == SAME[fipsCode]
                    subdivision == subdivisionOf(table, subdivisionCode)
                    isStatewide == EndsWith(Slice(d.s, 1, 6), <<"0", "0", "0">>)
                    county == countyOf(dataResponse)
                    region == regionOf(dataResponse, isStatewide, county)
                IN  IF subdivision = "" THEN Threw("subdivisioninvalid", "")
                    ELSE IF Split(dataResponse, ",")[1] = <<>>
                         THEN Threw("fipsinvalid", "")
                    ELSE Returned([
                        subdivision |-> subdivision,
                        county |-> county,
                        region |-> region,
                        formatted |->
                            IF isStatewide
                            THEN subdivision \o " of " \o county
                            ELSE subdivision \o " " \o county \o ", " \o region])

-----------------------------------------------------------------------------
(* origTranslator and eventTranslator *)

Uppers == <<"A", "B", "C", "D", "E", "F", "G", "H", "I", "J", "K", "L", "M",
            "N", "O", "P", "Q", "R", "S", "T", "U", "V", "W", "X", "Y", "Z">>

Lowers == <<"a", "b", "c", "d", "e", "f", "g", "h", "i", "j", "k", "l", "m",
            "n", "o", "p", "q", "r", "s", "t", "u", "v", "w", "x", "y", "z">>

IsUpper(c) == \E i \in 1..26 : Uppers[i] = c

IsLower(c) == \E i \in 1..26 : Lowers[i] = c

\* [a-zA-Z]
IsLetter(c) == IsUpper(c) \/ IsLower(c)

\* String.prototype.toLowerCase
ToLowerCase(s) ==
    [i \in 1..Len(s) |->
        IF IsUpper(s[i]) THEN Lowers[CHOOSE k \in 1..26 : Uppers[k] = s[i]]
        ELSE s[i]]

\* String.prototype.toUpperCase
ToUpperCase(s) ==
    [i \in 1..Len(s) |->
        IF IsLower(s[i]) THEN Uppers[CHOOSE k \in 1..26 : Lowers[k] = s[i]]
        ELSE s[i]]

\* /^[a-zA-Z]{3}$/.test(s)
IsThreeLetters(s) == Len(s) = 3 /\ \A i \in 1..3 : IsLetter(s[i])

origTranslator(d) ==
    IF IsNoData(d) THEN Threw("nodata", "")
    ELSE IF ~IsThreeLetters(d.s) THEN Threw("originvalid", "")
    ELSE
        LET originCode == Str(ToUpperCase(d.s))
        IN  IF originCode \notin DOMAIN ORGS2 THEN Threw("originvalid", "")
            ELSE Returned(ORGS2[originCode])

\* mutant: the code is looked up as given, without upper-casing it
eventTranslatorAsGiven(d) ==
    IF IsNoData(d) THEN Threw("nodata", "")
    ELSE IF Len(d.s) # 3 THEN Threw("eventinvalid", "")
    ELSE IF ~IsThreeLetters(d.s) THEN Threw("invalidcharacters", "")
    ELSE
        LET eventCode == Str(d.s)
        IN  IF eventCode \notin DOMAIN EVENTS THEN Threw("eventinvalid", "")
            ELSE Returned(EVENTS[eventCode])

eventTranslator(d) ==
    IF IsNoData(d) THEN Threw("nodata", "")
    ELSE IF Len(d.s) # 3 THEN Threw("eventinvalid", "")
    ELSE IF ~IsThreeLetters(d.s) THEN Threw("invalidcharacters", "")
    ELSE
        LET eventCode == Str(ToUpperCase(d.s))
        IN  IF eventCode \notin DOMAIN EVENTS THEN Threw("eventinvalid", "")
            ELSE Returned(EVENTS[eventCode])

\* no call of generateEASAlert is part of the run
GeneratorIdle ==
    /\ args = <<>>
    /\ gen = <<>>
    /\ genOut = <<>>
    /\ jobs = <<>>
    /\ disk = <<>>
    /\ effects = <<>>

\* neither translator is part of the run
TranslatorsIdle ==
    /\ codeIn = NonString("undefined")
    /\ origOut = NotCalled
    /\ eventOut = NotCalled

-----------------------------------------------------------------------------
(* Numbers and dates.  A number is <<n>>, NaN is <<>>.  A Date is <<t>>,    *)
(* t the minutes from 00:00 UTC on January 1 of the current year, and an   *)
(* Invalid Date is <<>>.  A time zone is its offset from UTC in minutes    *)
(* (local time = UTC + offset).                                            *)

NaN == <<>>

IsNaN(n) == n = <<>>

\* the digits at the start of s, as a number, given the digits read so far
RECURSIVE digitPrefix(_, _)
digitPrefix(s, acc) ==
    IF s # <<>> /\ IsDigit(Head(s))
    THEN digitPrefix(Tail(s), acc * 10 + DigitVal(Head(s)))
    ELSE acc

\* parseInt(s, 10)
parseInt(s) ==
    LET t == TrimStart(s)
        signed == t # <<>> /\ Head(t) \in {"+", "-"}
        u == IF signed THEN Tail(t) ELSE t
    IN  IF u = <<>> \/ ~IsDigit(Head(u)) THEN NaN
        ELSE IF signed /\ Head(t) = "-" THEN <<0 - digitPrefix(u, 0)>>
        ELSE <<digitPrefix(u, 0)>>

\* mutant: every fourth year is a leap year
isLeapYearEveryFourth(year) == year % 4 = 0

isLeapYear(year) ==
    year % 4 = 0 /\ (year % 100 # 0 \/ year % 400 = 0)

MinutesPerDay == 24 * 60

DaysIn(year) == IF isLeapYear(year) THEN 366 ELSE 365

MonthLengths(year) ==
    <<31, IF isLeapYear(year) THEN 29 ELSE 28, 31, 30, 31, 30, 31, 31, 30, 31, 30, 31>>

\* month and day of the month of the day numbered doy (from 1) of year
RECURSIVE monthAndDay(_, _, _)
monthAndDay(year, doy, month) ==
    IF doy <= MonthLengths(year)[month]
    THEN [month |-> month, day |-> doy]
    ELSE monthAndDay(year, doy - MonthLengths(year)[month], month + 1)

\* The local calendar fields of Date t read in time zone tz:
\* getMonth() + 1, getDate(), getHours(), getMinutes(), and the year.
localFields(t, year, tz) ==
    LET local == t + tz
        dayIndex == local \div MinutesPerDay
        minuteOfDay == local % MinutesPerDay
        y == IF dayIndex < 0 THEN year - 1
             ELSE IF dayIndex >= DaysIn(year) THEN year + 1
             ELSE year
        doy == IF dayIndex < 0 THEN DaysIn(year - 1) + dayIndex + 1
               ELSE IF dayIndex >= DaysIn(year) THEN dayIndex - DaysIn(year) + 1
               ELSE dayIndex + 1
        md == monthAndDay(y, doy, 1)
    IN  [year |-> y, month |-> md.month, day |-> md.day,
         hours |-> minuteOfDay \div 60, minutes |-> minuteOfDay % 60]

\* the decimal digits of n >= 0
RECURSIVE NumStr(_)
NumStr(n) ==
    IF n < 10 THEN Digits[n + 1] ELSE NumStr(n \div 10) \o Digits[(n % 10) + 1]

MonthNames ==
    ("en-US" :> <<"January", "February", "March", "April", "May", "June", "July",
                  "August", "September", "October", "November", "December">>) @@
    ("de-DE" :> <<"Januar", "Februar", "Maerz", "April", "Mai", "Juni", "Juli",
                  "August", "September", "Oktober", "November", "Dezember">>)

-----------------------------------------------------------------------------
(* decodeSame *)

\* mutant: the start marker is looked at before the segments are counted
validateHeaderMarkerFirst(parts) ==
    IF parts[1] # <<"Z", "C", "Z", "C">> THEN Threw("zczcnotfound", "")
    ELSE IF Len(parts) < 5 THEN Threw("invalidsameheader", "")
    ELSE Returned(NoValue)

validateHeader(parts) ==
    IF Len(parts) < 5 THEN Threw("invalidsameheader", "")
    ELSE IF parts[1] # <<"Z", "C", "Z", "C">> THEN Threw("zczcnotfound", "")
    ELSE Returned(NoValue)

parseOrgCode(orgCode) ==
    IF Str(orgCode) \notin DOMAIN ORGS THEN Threw("orgcodeinvalid", "")
    ELSE Returned(ORGS[Str(orgCode)])

parseEventCode(eventCode) ==
    IF Str(eventCode) \notin DOMAIN EVENTS THEN Threw("eventcodeinvalid", "")
    ELSE Returned(EVENTS[Str(eventCode)])

\* The loop over parts[3..]: the index (from 1) of the first segment from
\* the fourth on that contains '+', 0 when the loop ends without a break.
plusSegment(parts) ==
    IF \E i \in 4..Len(parts) : Includes(parts[i], "+")
    THEN CHOOSE i \in 4..Len(parts) :
            /\ Includes(parts[i], "+")
            /\ \A j \in 4..(i - 1) : ~Includes(parts[j], "+")
    ELSE 0

\* mutant: the code of the segment that carries '+' is not pushed
fipsCodesOfWithoutLast(parts) ==
    LET p == plusSegment(parts)
    IN  IF p = 0 THEN SubSeq(parts, 4, Len(parts))
        ELSE SubSeq(parts, 4, p - 1)

\* fipsCodes when the loop ends
fipsCodesOf(parts) ==
    LET p == plusSegment(parts)
    IN  IF p = 0 THEN SubSeq(parts, 4, Len(parts))
        ELSE SubSeq(parts, 4, p - 1) \o <<Split(parts[p], "+")[1]>>

\* mutant: an offset that is not 4 characters long is not kept
timeOffsetOfLength4(parts) ==
    LET p == plusSegment(parts)
    IN  IF p = 0 \/ Len(Split(parts[p], "+")[2]) # 4 THEN <<>>
        ELSE <<Split(parts[p], "+")[2]>>

\* timeOffset when the loop ends: <<time>>, or <<>> for null
timeOffsetOf(parts) ==
    LET p == plusSegment(parts)
    IN  IF p = 0 THEN <<>> ELSE <<Split(parts[p], "+")[2]>>

\* senderIndex when the loop ends, as an index from 1
senderIndexOf(parts) ==
    LET p == plusSegment(parts)
    IN  IF p = 0 THEN 1 ELSE p + 1

\* mutant: the date starts from the clock (new Date()) and keeps its time of day
julianToDateFromNow(julianDay, year, e) ==
    LET maxDays == IF isLeapYear(year) THEN 366 ELSE 365
    IN  IF ~IsNaN(julianDay) /\ (julianDay[1] < 1 \/ julianDay[1] > maxDays)
        THEN Threw("datetimeinvalid", "")
        ELSE IF IsNaN(julianDay) THEN Returned(<<>>)
        ELSE Returned(<<(julianDay[1] - 1) * MinutesPerDay
                            + (e.minute % MinutesPerDay) - e.tz>>)

\* new Date(year - 1, 11, 31) is local midnight of December 31; setDate moves
\* it julianDay local days on, to local midnight of day julianDay of year
julianToDate(julianDay, year, e) ==
    LET maxDays == IF isLeapYear(year) THEN 366 ELSE 365
    IN  IF ~IsNaN(julianDay) /\ (julianDay[1] < 1 \/ julianDay[1] > maxDays)
        THEN Threw("datetimeinvalid", "")
        ELSE IF IsNaN(julianDay) THEN Returned(<<>>)
        ELSE Returned(<<(julianDay[1] - 1) * MinutesPerDay - e.tz>>)

\* date.setUTCHours(hour, minute, 0, 0)
setUTCHours(date, hour, minute) ==
    IF date = <<>> \/ IsNaN(hour) \/ IsNaN(minute) THEN <<>>
    ELSE <<(date[1] \div MinutesPerDay) * MinutesPerDay + hour[1] * 60 + minute[1]>>

\* mutant: minutes above 59 are capped
endTimeOfCapped(startTime, expireHours, expireMinutes) ==
    IF startTime = <<>> \/ IsNaN(expireHours) \/ IsNaN(expireMinutes) THEN <<>>
    ELSE <<startTime[1] + (expireHours[1] * 60
                            + (IF expireMinutes[1] > 59 THEN 59 ELSE expireMinutes[1]))>>

\* new Date(startTime.getTime() + (expireHours * 60 + expireMinutes) * 60 * 1000)
endTimeOf(startTime, expireHours, expireMinutes) ==
    IF startTime = <<>> \/ IsNaN(expireHours) \/ IsNaN(expireMinutes) THEN <<>>
    ELSE <<startTime[1] + (expireHours[1] * 60 + expireMinutes[1])>>

\* one step of fipsCodes.map
locationOf(table, code) ==
    LET subdiv == Str(Slice(code, 0, 1))
        loccode == Str(Slice(code, 1, 6))
    IN  IF subdiv \notin DOMAIN table /\ subdiv # "0"
        THEN Threw("fipsinvalid", " (" \o Str(code) \o ")")
        ELSE IF loccode \notin DOMAIN SAME
        THEN Threw("fipsinvalid", " (" \o Str(code) \o ")")
        ELSE Returned((IF subdiv = "0" THEN "" ELSE table[subdiv]) \o Str(SAME[loccode]))

\* fipsCodes.map: the first code that throws ends the map
locationsOf(table, fipsCodes) ==
    LET each == [i \in 1..Len(fipsCodes) |-> locationOf(table, fipsCodes[i])]
    IN  IF \E i \in 1..Len(each) : ~each[i].ok
        THEN each[CHOOSE i \in 1..Len(each) :
                    ~each[i].ok /\ \A j \in 1..(i - 1) : each[j].ok]
        ELSE Returned([i \in 1..Len(each) |-> each[i].value])

\* mutant: the tail is cut after '/' as well
senderOfCutAtSlash(parts, senderIndex) ==
    LET senderParts == SubSeq(parts, senderIndex, Len(parts))
        tail == Join(Tail(Split(Join(senderParts, <<"-">>), "-")), <<"-">>)
    IN  Str(Split(tail, "/")[1])

\* mutant: the first fragment after the issue time is discarded too
senderOfWithoutFirst(parts, senderIndex) ==
    LET senderParts == SubSeq(parts, senderIndex, Len(parts))
        fragments == Split(Join(senderParts, <<"-">>), "-")
    IN  Str(Join(SubSeq(fragments, 3, Len(fragments)), <<"-">>))

\* parts.slice(senderIndex).join('-').split('-').slice(1).join('-')
senderOf(parts, senderIndex) ==
    LET senderParts == SubSeq(parts, senderIndex, Len(parts))
    IN  Str(Join(Tail(Split(Join(senderParts, <<"-">>), "-")), <<"-">>))

parseFipsAndTime(table, parts, e) ==
    LET fipsCodes == fipsCodesOf(parts)
        timeOffset == timeOffsetOf(parts)
        senderIndex == senderIndexOf(parts)
    IN  IF timeOffset = <<>> \/ timeOffset[1] = <<>>
        THEN Threw("expiretimeinvalid", "")
        ELSE
        LET timeString == IF senderIndex <= Len(parts) THEN parts[senderIndex] ELSE <<>>
        IN  IF Len(timeString) # 7 THEN Threw("datetimeinvalid", "")
            ELSE
            LET currentYear == e.year
                julianDay == parseInt(Slice(timeString, 0, 3))
                hour == parseInt(Slice(timeString, 3, 5))
                minute == parseInt(Slice(timeString, 5, 7))
                date == julianToDate(julianDay, currentYear, e)
            IN  IF ~date.ok THEN date
                ELSE
                LET startTime == setUTCHours(date.value, hour, minute)
                IN  IF Len(timeOffset[1]) # 4 THEN Threw("expiretimeinvalid", "")
                    ELSE
                    LET expireHours == parseInt(Slice(timeOffset[1], 0, 2))
                        expireMinutes == parseInt(SliceFrom(timeOffset[1], 2))
                        endTime == endTimeOf(startTime, expireHours, expireMinutes)
                        locations == locationsOf(table, fipsCodes)
                    IN  IF ~locations.ok THEN locations
                        ELSE Returned([
                            locations |-> locations.value,
                            startTime |-> startTime,
                            endTime |-> endTime,
                            sender |-> senderOf(parts, senderIndex)])

\* `${time} on ${month} ${day}`, the fields read in the process's time zone,
\* the month named in the process's locale
formatTime(date, e) ==
    IF date = <<>> THEN "Invalid Date on Invalid Date NaN"
    ELSE
        LET f == localFields(date[1], e.year, e.tz)
            h12 == IF f.hours % 12 = 0 THEN 12 ELSE f.hours % 12
            mm == IF f.minutes < 10 THEN "0" \o NumStr(f.minutes) ELSE NumStr(f.minutes)
            time == NumStr(h12) \o ":" \o mm \o (IF f.hours < 12 THEN " AM" ELSE " PM")
        IN  time \o " on " \o MonthNames[e.locale][f.month] \o " " \o NumStr(f.day)

formatResponse(org, event, locations, startTime, endTime, sender, e) ==
    [organization |-> org,
     event |-> event,
     locations |-> JoinStr(locations, "; "),
     timing |-> [start |-> formatTime(startTime, e), end |-> formatTime(endTime, e)],
     sender |-> sender,
     formatted |->
        org \o "a " \o event \o " for " \o JoinStr(locations, "; ")
            \o "; beginning at " \o formatTime(startTime, e)
            \o " and ending at " \o formatTime(endTime, e)
            \o ". Message from " \o sender]

\* data.endsWith('-') ? data.slice(0, -1) : data, then split('-')
partsOf(s) ==
    Split(IF EndsWith(s, <<"-">>) THEN SubSeq(s, 1, Len(s) - 1) ELSE s, "-")

decodeSame(table, d, e) ==
    IF IsNoData(d) THEN Threw("nodata", "")
    ELSE
        LET parts == partsOf(d.s)
            valid == validateHeader(parts)
        IN  IF ~valid.ok THEN valid
            ELSE
            LET orgInfo == parseOrgCode(parts[2])
            IN  IF ~orgInfo.ok THEN orgInfo
                ELSE
                LET eventInfo == parseEventCode(parts[3])
                IN  IF ~eventInfo.ok THEN eventInfo
                    ELSE
                    LET parsed == parseFipsAndTime(table, parts, e)
                    IN  IF ~parsed.ok THEN parsed
                        ELSE Returned(formatResponse(
                                orgInfo.value, eventInfo.value,
                                parsed.value.locations, parsed.value.startTime,
                                parsed.value.endTime, parsed.value.sender, e))

-----------------------------------------------------------------------------
(* The alert generator.  A Float32Array is the sequence of its runs: a run *)
(* of n zero samples [k |-> "silence", n |-> n], or one tone               *)
(* [k |-> kind, n |-> samples].  Adjacent runs of zeros are one run, as a  *)
(* buffer keeps no trace of how it was put together.  A string handed to   *)
(* the encoder is the sequence of the codes of its characters.             *)

SAMPLE_RATE == 24000

MODES == {"DEFAULT", "NWS", "DIGITAL", "SAGE", "TRILITHIC"}

\* Math.round(a / b) for a >= 0, b > 0
Round(a, b) == (2 * a + b) \div (2 * b)

\* a duration of num / den milliseconds
Ms(num, den) == [num |-> num, den |-> den]

\* Math.round((durationMs / 1000) * SAMPLE_RATE)
samplesOf(durationMs) ==
    Round(durationMs.num * (SAMPLE_RATE \div 1000), durationMs.den)

\* 1000 / 520.83
BitMs == Ms(100000, 52083)

\* the samples of the runs i..j of an audio buffer
RECURSIVE samplesIn(_, _, _)
samplesIn(buffer, i, j) ==
    IF i > j THEN 0
    ELSE IF i = j THEN buffer[i].n
    ELSE LET m == (i + j) \div 2
         IN  samplesIn(buffer, i, m) + samplesIn(buffer, m + 1, j)

\* buffer.length
length(buffer) == samplesIn(buffer, 1, Len(buffer))

\* buffer followed by one more run
appendRun(buffer, run) ==
    IF run.n = 0 THEN buffer
    ELSE IF buffer # <<>> /\ buffer[Len(buffer)].k = "silence" /\ run.k = "silence"
         THEN [buffer EXCEPT ![Len(buffer)].n = @ + run.n]
    ELSE Append(buffer, run)

\* concatAudio(a, b)
concat2(a, b) ==
    IF b = <<>> THEN a ELSE appendRun(a, Head(b)) \o Tail(b)

\* concatAudio(...buffers)
RECURSIVE concatAudio(_)
concatAudio(buffers) ==
    IF buffers = <<>> THEN <<>>
    ELSE concat2(Head(buffers), concatAudio(Tail(buffers)))

generateSine(kind, durationMs) ==
    LET samples == samplesOf(durationMs)
    IN  IF samples = 0 THEN <<>> ELSE <<[k |-> kind, n |-> samples]>>

createMark == generateSine("mark", BitMs)

\* mutant: a space lasts one period of 500 Hz
createSpaceAt500 == generateSine("space", Ms(2, 1))

createSpace == generateSine("space", BitMs)

createSilence(durationMs) ==
    LET samples == samplesOf(Ms(durationMs, 1))
    IN  IF samples = 0 THEN <<>> ELSE <<[k |-> "silence", n |-> samples]>>

\* mutant: the NWS tone lasts 8 seconds like the others
createAttentionToneAlways8s(mode) ==
    IF mode = "NWS" THEN generateSine("1050 Hz", Ms(8000, 1))
    ELSE generateSine("853 Hz + 960 Hz", Ms(8000, 1))

createAttentionTone(mode) ==
    IF mode = "NWS" THEN generateSine("1050 Hz", Ms(9000, 1))
    ELSE generateSine("853 Hz + 960 Hz", Ms(8000, 1))

\* repeatAudio(buffer, times)
repeatAudio(buffer, times) == concatAudio([i \in 1..times |-> buffer])

\* String.prototype.repeat
Repeat(s, times) == [i \in 1..(Len(s) * times) |-> s[((i - 1) % Len(s)) + 1]]

\* char.charCodeAt(0), char one element of the iteration of a string: a
\* character outside the basic plane gives its high surrogate
charCodeAt0(char) ==
    IF char >= 65536 THEN 55296 + ((char - 65536) \div 1024) ELSE char

\* Number.prototype.toString(2)
RECURSIVE toString2(_)
toString2(n) ==
    IF n < 2 THEN <<Digits[n + 1]>>
    ELSE toString2(n \div 2) \o <<Digits[(n % 2) + 1]>>

\* String.prototype.padStart(width, '0')
padStart(s, width) ==
    IF Len(s) >= width THEN s ELSE [i \in 1..(width - Len(s)) |-> "0"] \o s

\* split('').reverse().join('')
reverse(s) == [i \in 1..Len(s) |-> s[Len(s) + 1 - i]]

\* mutant: the bits are sent most significant first
bitsOfMsbFirst(char) == padStart(toString2(charCodeAt0(char)), 8)

\* the bits of one character, in the order they are sent
bitsOf(char) == reverse(padStart(toString2(charCodeAt0(char)), 8))

\* the tones of a sequence of bits
RECURSIVE encodeBits(_)
encodeBits(bits) ==
    IF bits = <<>> THEN <<>>
    ELSE concat2(IF Head(bits) = "1" THEN createMark ELSE createSpace,
                 encodeBits(Tail(bits)))

\* the loop over the characters of a string: the tones of all its bits
RECURSIVE encodeChars(_)
encodeChars(chars) ==
    IF chars = <<>> THEN <<>>
    ELSE concat2(encodeBits(bitsOf(Head(chars))), encodeChars(Tail(chars)))

\* mutant: SAGE frames like NWS
processedDataOfSageAsNws(chars, mode) ==
    IF mode = "NWS" THEN chars \o <<0, 0>>
    ELSE IF mode = "DIGITAL" THEN <<0>> \o chars \o <<255, 255, 255>>
    ELSE IF mode = "SAGE" THEN chars \o <<0, 0>>
    ELSE chars

\* processedData after the switch of encodeHeader
processedDataOf(chars, mode) ==
    IF mode = "NWS" THEN chars \o <<0, 0>>
    ELSE IF mode = "DIGITAL" THEN <<0>> \o chars \o <<255, 255, 255>>
    ELSE IF mode = "SAGE" THEN chars \o <<255>>
    ELSE chars

encodeHeader(chars, mode) ==
    LET buffer == encodeChars(processedDataOf(chars, mode))
    IN  IF mode = "DIGITAL"
        THEN LET firstTransmission == buffer
                 standardData == <<171>> \o chars \o <<255, 255, 255>>
                 standardBuffer == encodeChars(standardData)
             IN  concatAudio(<<firstTransmission, createSilence(1000),
                               standardBuffer, createSilence(1000),
                               standardBuffer>>)
        ELSE repeatAudio(concatAudio(<<buffer, createSilence(1000)>>), 3)

\* the characters of 'NNNN'
NNNN == <<78, 78, 78, 78>>

createEOM(mode) ==
    IF mode = "DIGITAL"
    THEN LET eomPart1 == <<0>> \o Repeat(<<171>>, 16) \o NNNN \o <<255, 255, 255>>
             eomPart2 == Repeat(<<171>>, 16) \o NNNN \o <<255, 255, 255>>
         IN  concatAudio(<<encodeChars(eomPart1), createSilence(1000),
                           encodeChars(eomPart2), createSilence(1000),
                           encodeChars(eomPart2)>>)
    ELSE encodeHeader(Repeat(<<171>>, 16) \o NNNN, mode)

\* mutant: the silence after the header is the same in every mode
assembleSameGap(zczcMessage, mode, attentionTone, audioBuffer) ==
    LET output1 == concatAudio(<<
            createSilence(1000),
            encodeHeader(Repeat(<<171>>, 16) \o zczcMessage, mode),
            createSilence(500)>>)
        output2 == IF attentionTone
                   THEN concatAudio(<<output1, createAttentionTone(mode),
                                      createSilence(1000)>>)
                   ELSE output1
        output3 == IF length(audioBuffer) > 0
                   THEN concatAudio(<<output2, audioBuffer, createSilence(1000)>>)
                   ELSE output2
    IN  concatAudio(<<output3, createEOM(mode), createSilence(1000)>>)

\* generateEASAlert, from the header to the EOM: the buffer it returns
assemble(zczcMessage, mode, attentionTone, audioBuffer) ==
    LET output1 == concatAudio(<<
            createSilence(1000),
            encodeHeader(Repeat(<<171>>, 16) \o zczcMessage, mode),
            createSilence(IF mode = "TRILITHIC" THEN 150 ELSE 500)>>)
        output2 == IF attentionTone
                   THEN concatAudio(<<output1, createAttentionTone(mode),
                                      createSilence(1000)>>)
                   ELSE output1
        output3 == IF length(audioBuffer) > 0
                   THEN concatAudio(<<output2, audioBuffer, createSilence(1000)>>)
                   ELSE output2
    IN  concatAudio(<<output3, createEOM(mode), createSilence(1000)>>)

-----------------------------------------------------------------------------
(* generateEASAlert.  The function runs to its first await, and from each  *)
(* await to the next or to its end, without interruption; in between, the  *)
(* transcoder it launched runs as a process of its own.  A file is its     *)
(* name and what it holds: [type, buffer], type "absent" when there is no  *)
(* such file.                                                              *)

Undefined == NonString("undefined")

Null == NonString("null")

Absent == [type |-> "absent", buffer |-> <<>>]

NoJob == [state |-> "none", input |-> "", output |-> "", codec |-> ""]

tempConversion == "temp_conversion.wav"

tempExport == "temp_export.wav"

\* fs.existsSync
existsSync(d, path) == path \in DOMAIN d /\ d[path] # Absent

\* fs.writeFileSync
writeFileSync(d, path, content) == [d EXCEPT ![path] = content]

\* fs.unlinkSync
unlinkSync(d, path) == [d EXCEPT ![path] = Absent]

\* if (fs.existsSync(tempWav)) fs.unlinkSync(tempWav)
unlinkIfExists(d, path) == IF existsSync(d, path) THEN unlinkSync(d, path) ELSE d

\* what a call did: an entry of effects
Effect(c, op, path) == [call |-> c, op |-> op, path |-> path]

\* mutant: the mode is taken as given
modeOfAsGiven(rawMode) ==
    IF rawMode.type # "string" THEN "DEFAULT" ELSE Str(rawMode.s)

\* (rawMode ?? MODES.DEFAULT).toUpperCase()
modeOf(rawMode) ==
    IF rawMode.type # "string" THEN "DEFAULT" ELSE Str(ToUpperCase(rawMode.s))

\* attentionTone = true when the option is not given
attentionToneOf(option) == IF option = "undefined" THEN TRUE ELSE option = "true"

\* outputFile = 'output.wav' when the option is not given
outputFileOf(option) ==
    IF option = Undefined
    THEN StringValue(<<"o", "u", "t", "p", "u", "t", ".", "w", "a", "v">>)
    ELSE option

\* audioPath?.trim(), as a condition
hasAudioPath(audioPath) == audioPath.type = "string" /\ Trim(audioPath.s) # <<>>

\* mutant: only a lower-case extension selects MP3
outputIsMp3CaseSensitive(outputFile) ==
    /\ outputFile.type = "string"
    /\ EndsWith(outputFile.s, <<".", "m", "p", "3">>)

\* outputFile?.toLowerCase().endsWith('.mp3')
outputIsMp3(outputFile) ==
    /\ outputFile.type = "string"
    /\ EndsWith(ToLowerCase(outputFile.s), <<".", "m", "p", "3">>)

\* a launched transcoder
Job(input, output, codec) ==
    [state |-> "running", input |-> input, output |-> output, codec |-> codec]

\* the state of a call and of the outside after one uninterrupted stretch
Stretch(g, out, job, d, e) ==
    [gen |-> g, out |-> out, job |-> job, disk |-> d, effects |-> e]

\* mutant: the temporary file of the MP3 export is left behind
afterExportKeepsTemp(c, g, job, d, e) ==
    LET e1 == IF job.state = "rejected"
              THEN Append(e, Effect(c, "console.error", "Error during MP3 conversion"))
              ELSE e
    IN  Stretch([g EXCEPT !.at = "done"], Returned(g.output), NoJob, d, e1)

\* generateEASAlert from the end of the MP3 transcoder to the return
afterExport(c, g, job, d, e) ==
    LET e1 == IF job.state = "rejected"
              THEN Append(e, Effect(c, "console.error", "Error during MP3 conversion"))
              ELSE e
        d1 == unlinkIfExists(d, tempExport)
        e2 == IF existsSync(d, tempExport)
              THEN Append(e1, Effect(c, "unlink", tempExport)) ELSE e1
    IN  Stretch([g EXCEPT !.at = "done"], Returned(g.output), NoJob, d1, e2)

\* generateEASAlert from the assembly of the output to the launch of the
\* MP3 transcoder, or to the return when the output is a WAV file
assembleAndWrite(c, a, g, audioBuffer, d, e) ==
    LET output == assemble(a.zczcMessage, g.mode, attentionToneOf(a.attentionTone),
                           audioBuffer)
        outputFile == outputFileOf(a.outputFile)
        wav == [type |-> "wav", buffer |-> output]
        g1 == [g EXCEPT !.audioBuffer = audioBuffer, !.output = output]
    IN  IF outputIsMp3(outputFile)
        THEN Stretch([g1 EXCEPT !.at = "export"], NotCalled,
                     Job(tempExport, Str(outputFile.s), "libmp3lame"),
                     writeFileSync(d, tempExport, wav),
                     e \o <<Effect(c, "write", tempExport),
                            Effect(c, "ffmpeg", tempExport)>>)
        ELSE Stretch([g1 EXCEPT !.at = "done"], Returned(output), NoJob,
                     writeFileSync(d, Str(outputFile.s), wav),
                     Append(e, Effect(c, "write", Str(outputFile.s))))

\* mutant: a missing narration file is treated like a failed transcode
startIgnoringMissingFile(c, a, g, d, e) ==
    LET g1 == [g EXCEPT !.mode = modeOf(a.mode)]
    IN  IF hasAudioPath(a.audioPath)
        THEN Stretch([g1 EXCEPT !.at = "conversion"], NotCalled,
                     Job(Str(a.audioPath.s), tempConversion, "pcm_s16le"),
                     d, Append(e, Effect(c, "ffmpeg", Str(a.audioPath.s))))
        ELSE assembleAndWrite(c, a, g1, <<>>, d, e)

\* generateEASAlert from its entry to the launch of the narration
\* transcoder, or to where assembleAndWrite ends when there is no narration
start(c, a, g, d, e) ==
    LET g1 == [g EXCEPT !.mode = modeOf(a.mode)]
    IN  IF hasAudioPath(a.audioPath)
        THEN IF ~existsSync(d, Str(a.audioPath.s))
             THEN Stretch([g1 EXCEPT !.at = "done"], Threw("audioFileNotFound", ""),
                          NoJob, d, e)
             ELSE Stretch([g1 EXCEPT !.at = "conversion"], NotCalled,
                          Job(Str(a.audioPath.s), tempConversion, "pcm_s16le"),
                          d, Append(e, Effect(c, "ffmpeg", Str(a.audioPath.s))))
        ELSE assembleAndWrite(c, a, g1, <<>>, d, e)

\* mutant: a failed conversion aborts the call
afterConversionRethrows(c, a, g, job, readOk, d, e) ==
    LET converted == /\ job.state = "resolved"
                     /\ readOk
                     /\ existsSync(d, tempConversion)
                     /\ d[tempConversion].type = "wav"
        audioBuffer == IF converted THEN d[tempConversion].buffer ELSE <<>>
        e1 == IF converted THEN e
              ELSE Append(e, Effect(c, "console.error", "Error during audio conversion"))
        d1 == unlinkIfExists(d, tempConversion)
        e2 == IF existsSync(d, tempConversion)
              THEN Append(e1, Effect(c, "unlink", tempConversion)) ELSE e1
    IN  IF converted THEN assembleAndWrite(c, a, g, audioBuffer, d1, e2)
        ELSE Stretch([g EXCEPT !.at = "done"], Threw("conversion", ""), NoJob, d1, e2)

\* generateEASAlert from the end of the narration transcoder on: the rest
\* of the try statement, then assembleAndWrite.  readOk: reading and
\* parsing the converted file does not throw
afterConversion(c, a, g, job, readOk, d, e) ==
    LET converted == /\ job.state = "resolved"
                     /\ readOk
                     /\ existsSync(d, tempConversion)
                     /\ d[tempConversion].type = "wav"
        audioBuffer == IF converted THEN d[tempConversion].buffer ELSE <<>>
        e1 == IF converted THEN e
              ELSE Append(e, Effect(c, "console.error", "Error during audio conversion"))
        d1 == unlinkIfExists(d, tempConversion)
        e2 == IF existsSync(d, tempConversion)
              THEN Append(e1, Effect(c, "unlink", tempConversion)) ELSE e1
    IN  assembleAndWrite(c, a, g, audioBuffer, d1, e2)

\* the transcoder: what it leaves on disk and how it ends
transcode(job, outcome, d) ==
    LET readable == /\ existsSync(d, job.input)
                    /\ d[job.input].type \in {"audio", "wav"}
                    /\ job.input # job.output
    IN  IF outcome = "ok" /\ readable
        THEN [job |-> [job EXCEPT !.state = "resolved"],
              disk |-> writeFileSync(d, job.output,
                          [type |-> IF job.codec = "libmp3lame" THEN "mp3" ELSE "wav",
                           buffer |-> d[job.input].buffer])]
        ELSE IF outcome = "partial" /\ readable
        THEN [job |-> [job EXCEPT !.state = "rejected"],
              disk |-> writeFileSync(d, job.output,
                          [type |-> "garbage", buffer |-> <<>>])]
        ELSE [job |-> [job EXCEPT !.state = "rejected"], disk |-> d]

-----------------------------------------------------------------------------
(* The arguments of translateFips that the model tries. *)

\* the strings over alphabet of length at most n
RECURSIVE Strings(_, _)
Strings(alphabet, n) ==
    IF n = 0 THEN {<<>>}
    ELSE LET shorter == Strings(alphabet, n - 1)
         IN  shorter \cup {s \o <<c>> : s \in shorter, c \in alphabet}

SubdivTexts == {<<>>, <<"0">>, <<"1">>, <<"9">>, <<"A">>, <<" ">>}

CountyTexts == {
    <<>>,
    <<"3", "0", "0", "1", "3">>,
    <<"3", "0", "0", "0", "0">>,
    <<"2", "7", "1", "3", "3">>,
    <<"0", "0", "0", "0", "1">>,
    <<"3", "0", "0", "1">>,
    <<"3", "0", "0", "1", "A">>,
    <<"A", "A", "A", "A", "A">>,
    <<" ", " ", " ", " ", " ">>}

FipsInputs ==
    {StringValue(a \o b \o c) :
        a \in SubdivTexts, b \in CountyTexts, c \in Strings({"0", "A"}, MaxPad)}
    \cup {NonString("number"), NonString("undefined")}

-----------------------------------------------------------------------------
(* The FIPS translator called once. *)

InitFips ==
    /\ pc = "fips"
    /\ SUBDIV \in SubdivTables
    /\ fipsIn \in FipsInputs
    /\ fipsOut = NotCalled
    /\ data = NonString("undefined")
    /\ env = <<>>
    /\ result = <<>>
    /\ TranslatorsIdle
    /\ GeneratorIdle

TranslateFips ==
    /\ pc = "fips"
    /\ fipsOut' = translateFips(SUBDIV, fipsIn)
    /\ pc' = "done"
    /\ UNCHANGED <<SUBDIV, fipsIn, data, env, result, translatorVars, generatorVars>>

NextFips == TranslateFips

SpecFips == InitFips /\ [][NextFips]_vars

-----------------------------------------------------------------------------
(* The originator and event translators, each called once on the same      *)
(* argument.                                                               *)

\* longest code tried
MaxCodeLen == 4

CodeAlphabet == {"W", "X", "R", "T", "O", "t", "x", "3", "#"}

CodeInputs ==
    {NonString("undefined"), NonString("number")}
        \cup {StringValue(s) : s \in {<<" ">>, <<" ", " ", " ">>, <<" ", "O", "R">>}}
        \cup {StringValue(s) : s \in Strings(CodeAlphabet, MaxCodeLen)}

InitCodes ==
    /\ pc = "codes"
    /\ SUBDIV = SubdivFull
    /\ fipsIn = NonString("undefined")
    /\ fipsOut = NotCalled
    /\ data = NonString("undefined")
    /\ env = <<>>
    /\ result = <<>>
    /\ codeIn \in CodeInputs
    /\ origOut = NotCalled
    /\ eventOut = NotCalled
    /\ GeneratorIdle

OrigTranslator ==
    /\ pc = "codes"
    /\ origOut = NotCalled
    /\ origOut' = origTranslator(codeIn)
    /\ pc' = IF eventOut # NotCalled THEN "done" ELSE pc
    /\ UNCHANGED <<SUBDIV, fipsIn, fipsOut, data, env, result, codeIn, eventOut,
                   generatorVars>>

EventTranslator ==
    /\ pc = "codes"
    /\ eventOut = NotCalled
    /\ eventOut' = eventTranslator(codeIn)
    /\ pc' = IF origOut # NotCalled THEN "done" ELSE pc
    /\ UNCHANGED <<SUBDIV, fipsIn, fipsOut, data, env, result, codeIn, origOut,
                   generatorVars>>

NextCodes == OrigTranslator \/ EventTranslator

SpecCodes == InitCodes /\ [][NextCodes]_vars

-----------------------------------------------------------------------------
(* The alert generator called once. *)

\* longest message tried
MaxMsgLen == 1

\* 'Z' and a character above 0xFF
MessageAlphabet == {90, 321}

Messages == Strings(MessageAlphabet, MaxMsgLen)

ModeOptions ==
    {Undefined} \cup
    {StringValue(m) : m \in {<<"D", "E", "F", "A", "U", "L", "T">>,
                             <<"N", "W", "S">>, <<"n", "w", "s">>,
                             <<"D", "I", "G", "I", "T", "A", "L">>,
                             <<"S", "A", "G", "E">>,
                             <<"T", "R", "I", "L", "I", "T", "H", "I", "C">>}}

\* the option left out, as in most calls, or set to false
AttentionToneOptions == {"undefined", "false"}

\* a narration file that is there, one with no samples in it, and one that
\* is not there
NarrationPath == <<"v", ".", "m", "p", "3">>

EmptyNarrationPath == <<"e", ".", "m", "p", "3">>

MissingPath == <<"x", ".", "m", "p", "3">>

AudioPathOptions ==
    {Undefined, Null, StringValue(<<" ">>), StringValue(NarrationPath),
     StringValue(EmptyNarrationPath), StringValue(MissingPath)}

OutputFileOptions ==
    {Undefined, StringValue(<<"a", ".", "w", "a", "v">>),
     StringValue(<<"a", ".", "M", "P", "3">>)}

Options(modes, tones, paths, outputs) ==
    [zczcMessage : Messages, mode : modes, attentionTone : tones,
     audioPath : paths, outputFile : outputs]

\* the files a call can name
Files ==
    {tempConversion, tempExport, Str(NarrationPath), Str(EmptyNarrationPath),
     Str(MissingPath)}
        \cup {Str(outputFileOf(o).s) : o \in OutputFileOptions}

\* the samples of the narration file
NarrationLength == 3

\* the working directory before the calls: the narration files and nothing
\* else
Disk ==
    [f \in Files |->
        IF f = Str(NarrationPath)
        THEN [type |-> "audio",
              buffer |-> <<[k |-> "narration " \o f, n |-> NarrationLength]>>]
        ELSE IF f = Str(EmptyNarrationPath)
        THEN [type |-> "audio", buffer |-> <<>>]
        ELSE Absent]

NewCall == [at |-> "start", mode |-> "", audioBuffer |-> <<>>, output |-> <<>>]

InitGenerate ==
    /\ pc = "generate"
    /\ SUBDIV = SubdivFull
    /\ fipsIn = NonString("undefined")
    /\ fipsOut = NotCalled
    /\ data = NonString("undefined")
    /\ env = <<>>
    /\ result = <<>>
    /\ TranslatorsIdle
    /\ args \in [{1} -> Options(ModeOptions, AttentionToneOptions,
                                AudioPathOptions, OutputFileOptions)]
    /\ gen = [c \in {1} |-> NewCall]
    /\ genOut = [c \in {1} |-> NotCalled]
    /\ jobs = [c \in {1} |-> NoJob]
    /\ disk = Disk
    /\ effects = <<>>

\* call c goes on to where stretch r ends
Advance(c, r) ==
    /\ gen' = [gen EXCEPT ![c] = r.gen]
    /\ genOut' = [genOut EXCEPT ![c] = r.out]
    /\ jobs' = [jobs EXCEPT ![c] = r.job]
    /\ disk' = r.disk
    /\ effects' = r.effects
    /\ pc' = IF \A q \in DOMAIN gen : (IF q = c THEN r.gen.at ELSE gen[q].at) = "done"
             THEN "done" ELSE pc
    /\ UNCHANGED <<SUBDIV, fipsIn, fipsOut, data, env, result, translatorVars, args>>

Start(c) ==
    /\ gen[c].at = "start"
    /\ Advance(c, start(c, args[c], gen[c], disk, effects))

\* the transcoder launched by call c runs and ends
Transcode(c) ==
    /\ jobs[c].state = "running"
    /\ \E outcome \in {"ok", "partial", "failed"} :
          LET t == transcode(jobs[c], outcome, disk)
          IN  /\ jobs' = [jobs EXCEPT ![c] = t.job]
              /\ disk' = t.disk
    /\ UNCHANGED <<pc, SUBDIV, fipsIn, fipsOut, data, env, result, translatorVars,
                   args, gen, genOut, effects>>

AfterConversion(c) ==
    /\ gen[c].at = "conversion"
    /\ jobs[c].state \in {"resolved", "rejected"}
    /\ \E readOk \in BOOLEAN :
          Advance(c, afterConversion(c, args[c], gen[c], jobs[c], readOk, disk, effects))

AfterExport(c) ==
    /\ gen[c].at = "export"
    /\ jobs[c].state \in {"resolved", "rejected"}
    /\ Advance(c, afterExport(c, gen[c], jobs[c], disk, effects))

NextGenerate ==
    \E c \in DOMAIN gen :
        Start(c) \/ Transcode(c) \/ AfterConversion(c) \/ AfterExport(c)

SpecGenerate == InitGenerate /\ [][NextGenerate]_vars

-----------------------------------------------------------------------------
(* The alert generator called twice before either call has ended, as with  *)
(* Promise.all, with a transcoder that does not fail on its own and a      *)
(* converted file that can be read: each call narrates its own file, the   *)
(* second call writes an MP3 file of its own.                              *)

SecondNarrationPath == <<"w", ".", "m", "p", "3">>

PairOutputFileOptions ==
    [c \in {1, 2} |->
        IF c = 1
        THEN {StringValue(<<"a", ".", "w", "a", "v">>),
              StringValue(<<"a", ".", "M", "P", "3">>)}
        ELSE {StringValue(<<"b", ".", "w", "a", "v">>),
              StringValue(<<"b", ".", "m", "p", "3">>)}]

PairFiles ==
    Files \cup {Str(SecondNarrationPath)}
          \cup {Str(o.s) : o \in PairOutputFileOptions[1] \cup PairOutputFileOptions[2]}

\* the working directory before the calls: the two narration files
PairDisk ==
    [f \in PairFiles |->
        IF f \in {Str(NarrationPath), Str(SecondNarrationPath)}
        THEN [type |-> "audio",
              buffer |-> <<[k |-> "narration " \o f, n |-> NarrationLength]>>]
        ELSE Absent]

PairOptions(c) ==
    [zczcMessage : {<<90>>}, mode : {Undefined}, attentionTone : AttentionToneOptions,
     audioPath : {StringValue(IF c = 1 THEN NarrationPath ELSE SecondNarrationPath)},
     outputFile : PairOutputFileOptions[c]]

InitGeneratePair ==
    /\ pc = "generate"
    /\ SUBDIV = SubdivFull
    /\ fipsIn = NonString("undefined")
    /\ fipsOut = NotCalled
    /\ data = NonString("undefined")
    /\ env = <<>>
    /\ result = <<>>
    /\ TranslatorsIdle
    /\ args \in {a \in [{1, 2} -> PairOptions(1) \cup PairOptions(2)] :
                    \A c \in {1, 2} : a[c] \in PairOptions(c)}
    /\ gen = [c \in {1, 2} |-> NewCall]
    /\ genOut = [c \in {1, 2} |-> NotCalled]
    /\ jobs = [c \in {1, 2} |-> NoJob]
    /\ disk = PairDisk
    /\ effects = <<>>

\* the transcoder launched by call c runs and does not fail on its own
TranscodeOk(c) ==
    /\ jobs[c].state = "running"
    /\ LET t == transcode(jobs[c], "ok", disk)
       IN  /\ jobs' = [jobs EXCEPT ![c] = t.job]
           /\ disk' = t.disk
    /\ UNCHANGED <<pc, SUBDIV, fipsIn, fipsOut, data, env, result, translatorVars,
                   args, gen, genOut, effects>>

\* call c goes on after its narration transcoder; reading does not throw
AfterConversionRead(c) ==
    /\ gen[c].at = "conversion"
    /\ jobs[c].state \in {"resolved", "rejected"}
    /\ Advance(c, afterConversion(c, args[c], gen[c], jobs[c], TRUE, disk, effects))

NextGeneratePair ==
    \E c \in DOMAIN gen :
        Start(c) \/ TranscodeOk(c) \/ AfterConversionRead(c) \/ AfterExport(c)

SpecGeneratePair == InitGeneratePair /\ [][NextGeneratePair]_vars

-----------------------------------------------------------------------------
(* The headers that the model tries.  A header is built from its fields,   *)
(* joined by '-'; the decoder is given the characters only.                *)

StartTexts == {<<"Z", "C", "Z", "C">>, <<>>}

OrgTexts == {<<"W", "X", "R">>, <<"W", "H", "A">>}

EventTexts == {<<"S", "Q", "W">>, <<"A", "A", "A">>}

\* location codes before the last one
InnerLocTexts == {
    <<"0", "2", "7", "1", "3", "3">>,
    <<"1", "0", "6", "0", "8", "1">>,
    <<"0", "2", "7", "1", "3", "3", "9">>}

\* the last location code
LocTexts == InnerLocTexts \cup {
    <<"0", "2", "7", "3">>,
    <<"A", "2", "7", "1", "3", "3">>,
    <<"0", "0", "0", "0", "0", "1">>,
    <<>>}

\* the purge offset after '+'; <<"+">>-less headers have none
OffsetTexts == {
    <<"0", "1", "0", "0">>,
    <<"0", "1", "4", "5">>,
    <<"0", "1", "0">>,
    <<>>}

TimeTexts == {
    <<"3", "4", "4", "1", "4", "4", "1">>,
    <<"0", "0", "1", "0", "0", "0", "0">>,
    <<"0", "0", "0", "1", "2", "0", "0">>,
    <<"3", "6", "5", "2", "3", "5", "9">>,
    <<"3", "6", "6", "1", "2", "0", "0">>,
    <<"3", "6", "7", "1", "2", "0", "0">>,
    <<"3", "4", "4">>}

\* the segments after the issue time
SenderTails == {
    <<>>,
    << <<"E", "R", "N", "/", "C", "R", "T", "V">> >>,
    << <<"K", "A", "B", "C">>, <<"T", "V">> >>}

\* the sequences over S of length at most n
RECURSIVE SeqsUpTo(_, _)
SeqsUpTo(S, n) ==
    IF n = 0 THEN {<<>>}
    ELSE LET shorter == SeqsUpTo(S, n - 1)
         IN  shorter \cup {q \o <<x>> : q \in shorter, x \in S}

\* The segments from the fourth on: the locations, the last one carrying
\* the offset when there is one, then the issue time when there is one,
\* then the sender.
TailSegments ==
    LET locLists == {q \o <<x>> : q \in SeqsUpTo(InnerLocTexts, MaxLocs), x \in LocTexts}
        withOffset == {SubSeq(l, 1, Len(l) - 1) \o <<l[Len(l)] \o <<"+">> \o o>> :
                            l \in locLists, o \in OffsetTexts}
        times == {<<t>> : t \in TimeTexts} \cup {<<>>}
    IN  {l \o t \o x : l \in locLists \cup withOffset, t \in times, x \in SenderTails}

\* a tail with nothing wrong, and tails with one thing wrong each
PlainTails == {
    << <<"0", "2", "7", "1", "3", "3", "+", "0", "1", "0", "0">>,
       <<"3", "4", "4", "1", "4", "4", "1">>,
       <<"E", "R", "N", "/", "C", "R", "T", "V">> >>,
    << <<"0", "2", "7", "1", "3", "3", "+", "0", "1", "0">>,
       <<"3", "4", "4", "1", "4", "4", "1">>,
       <<"E", "R", "N", "/", "C", "R", "T", "V">> >>,
    << <<"0", "2", "7", "1", "3", "3", "+", "0", "1", "0", "0">>,
       <<"3", "4", "4">>,
       <<"E", "R", "N", "/", "C", "R", "T", "V">> >>,
    << <<"0", "2", "7", "3", "+", "0", "1", "0", "0">>,
       <<"3", "4", "4", "1", "4", "4", "1">>,
       <<"E", "R", "N", "/", "C", "R", "T", "V">> >>}

\* every start, originator and event before a few tails, and headers of
\* fewer than 5 segments
FrontSegments ==
    {<<z, o, v>> \o t : z \in StartTexts, o \in OrgTexts, v \in EventTexts, t \in PlainTails}
    \cup {<<<<"I", "N", "V", "A", "L", "I", "D">>, <<"H", "E", "A", "D", "E", "R">>>>,
          <<<<"Z", "C", "Z", "C">>, <<"W", "H", "A">>, <<"A", "A", "A">>>>,
          <<<<"W", "X", "R">>, <<"W", "H", "A">>, <<"A", "A", "A">>, <<"0">>>>}

\* every tail after a good start, originator and event
TailHeaderSegments ==
    {<<<<"Z", "C", "Z", "C">>, <<"W", "X", "R">>, <<"S", "Q", "W">>>> \o t :
        t \in TailSegments}

\* the first with and without the closing '-', the second with it; and
\* inputs that are no header at all
Headers ==
    {StringValue(Join(h, <<"-">>) \o c) : h \in FrontSegments, c \in {<<>>, <<"-">>}}
    \cup {StringValue(Join(h, <<"-">>) \o <<"-">>) : h \in TailHeaderSegments}
    \cup {StringValue(<<>>), StringValue(<<" ", " ">>), NonString("number")}

Years == {2025, 2028, 2100, 2400}

TimeZones == {0 - 420, 0, 120}

Locales == {"en-US", "de-DE"}

\* the process clock (year: new Date().getFullYear(); minute: the minute of
\* that year), the process time zone and the process locale
Envs(years, zones, locales, minutes) ==
    [year : years, tz : zones, locale : locales, minute : minutes]

-----------------------------------------------------------------------------
(* The decoder called once. *)

InitDecode ==
    /\ pc = "decode"
    /\ SUBDIV \in {SubdivFull, SubdivNoZero}
    /\ fipsIn = NonString("undefined")
    /\ fipsOut = NotCalled
    /\ data \in Headers
    /\ env \in [{1} -> Envs(Years, {0}, {"en-US"}, {0})]
    /\ result = [p \in {1} |-> NotCalled]
    /\ TranslatorsIdle
    /\ GeneratorIdle

Decode(p) ==
    /\ pc = "decode"
    /\ result[p] = NotCalled
    /\ result' = [result EXCEPT ![p] = decodeSame(SUBDIV, data, env[p])]
    /\ pc' = IF \A q \in DOMAIN result : q # p => result[q] # NotCalled
             THEN "done" ELSE pc
    /\ UNCHANGED <<SUBDIV, fipsIn, fipsOut, data, env, translatorVars, generatorVars>>

NextDecode == \E p \in DOMAIN result : Decode(p)

SpecDecode == InitDecode /\ [][NextDecode]_vars

-----------------------------------------------------------------------------
(* The decoder called in two executions on the same header: each execution *)
(* has its own clock, time zone and locale.                                *)

PairTails ==
    {<<l \o <<"+">> \o o, t, <<"W", "J", "O", "N", "/", "B", "L", "U">>>> :
        l \in {<<"0", "0", "6", "0", "8", "1">>},
        o \in {<<"0", "1", "0", "0">>, <<"0", "1", "4", "5">>, <<"9", "9", "5", "9">>},
        t \in {<<"3", "4", "4", "1", "4", "4", "1">>, <<"0", "0", "1", "0", "0", "0", "0">>,
               <<"3", "6", "5", "2", "3", "5", "9">>, <<"3", "6", "6", "1", "2", "0", "0">>,
               <<"3", "4", "4">>}}

PairHeaders ==
    {StringValue(Join(<<<<"Z", "C", "Z", "C">>, <<"W", "X", "R">>, <<"T", "S", "W">>>> \o t,
                      <<"-">>) \o <<"-">>) : t \in PairTails}

\* minutes of the year at which an execution may run
ClockMinutes == {60, 200 * MinutesPerDay + 720}

InitPair ==
    /\ pc = "decode"
    /\ SUBDIV = SubdivFull
    /\ fipsIn = NonString("undefined")
    /\ fipsOut = NotCalled
    /\ data \in PairHeaders
    /\ env \in [{1, 2} -> Envs({2025, 2028}, TimeZones, Locales, ClockMinutes)]
    /\ result = [p \in {1, 2} |-> NotCalled]
    /\ TranslatorsIdle
    /\ GeneratorIdle

SpecPair == InitPair /\ [][NextDecode]_vars

-----------------------------------------------------------------------------
(* The decoder called once on headers that differ in their issue time and  *)
(* purge offset only, in processes of several time zones.                  *)

TimeTails ==
    {<<l \o <<"+">> \o o, t, <<"K", "A", "B", "C">>, <<"T", "V">>>> :
        l \in {<<"0", "2", "7", "1", "3", "3">>},
        o \in {<<"0", "1", "0", "0">>, <<"0", "1", "9", "9">>, <<"9", "9", "5", "9">>,
               <<"0", "1", "A", "0">>},
        t \in {<<"3", "4", "4", "1", "4", "4", "1">>, <<"0", "0", "1", "0", "0", "0", "0">>,
               <<"3", "6", "5", "2", "3", "5", "9">>, <<"3", "6", "6", "1", "2", "0", "0">>,
               <<"3", "4", "4", "2", "5", "7", "5">>, <<"A", "B", "C", "1", "2", "3", "4">>,
               <<"3", "4", "4", "1", "A", "4", "1">>}}

TimeHeaders ==
    {StringValue(Join(<<<<"Z", "C", "Z", "C">>, <<"W", "X", "R">>, <<"S", "Q", "W">>>> \o t,
                      <<"-">>) \o <<"-">>) : t \in TimeTails}

InitTimes ==
    /\ pc = "decode"
    /\ SUBDIV = SubdivFull
    /\ fipsIn = NonString("undefined")
    /\ fipsOut = NotCalled
    /\ data \in TimeHeaders
    /\ env \in [{1} -> Envs({2025, 2028}, TimeZones, Locales, {0})]
    /\ result = [p \in {1} |-> NotCalled]
    /\ TranslatorsIdle
    /\ GeneratorIdle

SpecTimes == InitTimes /\ [][NextDecode]_vars

-----------------------------------------------------------------------------
(* What the claims speak of, read off the header itself. *)

\* the '-'-separated segments after one closing '-' is stripped
Segs == IF data.type = "string" THEN partsOf(data.s) ELSE <<>>

\* segments g pass the segment-count, ZCZC, ORG and EVT checks
FrontValid(g) ==
    /\ ~IsNoData(data)
    /\ Len(g) >= 5
    /\ g[1] = <<"Z", "C", "Z", "C">>
    /\ Str(g[2]) \in DOMAIN ORGS
    /\ Str(g[3]) \in DOMAIN EVENTS

HasPlus(g) == \E i \in 4..Len(g) : Includes(g[i], "+")

\* the index of the first segment, from the fourth on, that contains '+'
PlusAt(g) == CHOOSE i \in 4..Len(g) :
                Includes(g[i], "+") /\ \A j \in 4..(i - 1) : ~Includes(g[j], "+")

\* the text of a segment before and after its first '+'
BeforePlus(seg) ==
    SubSeq(seg, 1, (CHOOSE i \in 1..Len(seg) :
                        seg[i] = "+" /\ \A j \in 1..(i - 1) : seg[j] # "+") - 1)

AfterPlus(seg) ==
    SubSeq(seg, (CHOOSE i \in 1..Len(seg) :
                    seg[i] = "+" /\ \A j \in 1..(i - 1) : seg[j] # "+") + 1, Len(seg))

OffsetText(g) == AfterPlus(g[PlusAt(g)])

\* the segment after the one that carries '+', empty when there is none
IssueText(g) == IF PlusAt(g) + 1 <= Len(g) THEN g[PlusAt(g) + 1] ELSE <<>>

\* the location codes of the header, in order
LocationCodes(g) ==
    LET p == PlusAt(g)
    IN  [i \in 1..(p - 3) |-> IF i = p - 3 THEN BeforePlus(g[p]) ELSE g[3 + i]]

GregorianLeap(y) == (y % 4 = 0 /\ y % 100 # 0) \/ y % 400 = 0

LastDay(y) == IF GregorianLeap(y) THEN 366 ELSE 365

ThreeDigits(t) == Len(t) >= 3 /\ \A i \in 1..3 : IsDigit(t[i])

DayNumber(t) == 100 * DigitVal(t[1]) + 10 * DigitVal(t[2]) + DigitVal(t[3])

\* the Julian day that parseInt reads is a number outside the year
JulianOutOfRange(t, y) ==
    LET d == parseInt(Slice(t, 0, 3))
    IN  ~IsNaN(d) /\ (d[1] < 1 \/ d[1] > LastDay(y))

Decoded == pc = "done" /\ result[1] # NotCalled

-----------------------------------------------------------------------------
(* C1: decodeSame reports the first failing check in the order NoData,     *)
(* InvalidSameHeader (fewer than 5 segments), ZczcNotFound, OrgCodeInvalid,*)
(* EventCodeInvalid, and each of them wins over any offset, issue-time or  *)
(* location failure of the same header.                                    *)
C1_FirstFailingCheck ==
    Decoded =>
        LET r == result[1]
            g == Segs
        IN  IF IsNoData(data) THEN r.error = "nodata"
            ELSE IF Len(g) < 5 THEN r.error = "invalidsameheader"
            ELSE IF g[1] # <<"Z", "C", "Z", "C">> THEN r.error = "zczcnotfound"
            ELSE IF Str(g[2]) \notin DOMAIN ORGS THEN r.error = "orgcodeinvalid"
            ELSE IF Str(g[3]) \notin DOMAIN EVENTS THEN r.error = "eventcodeinvalid"
            ELSE r.error \notin {"nodata", "invalidsameheader", "zczcnotfound",
                                 "orgcodeinvalid", "eventcodeinvalid"}

\* a header with no start marker, an unknown originator, an unknown event
\* and a 3-character offset was answered ZczcNotFound
C1_Witness ==
    LET g == Segs
    IN  /\ Decoded
        /\ ~IsNoData(data)
        /\ Len(g) >= 5
        /\ g[1] # <<"Z", "C", "Z", "C">>
        /\ Str(g[2]) \notin DOMAIN ORGS
        /\ Str(g[3]) \notin DOMAIN EVENTS
        /\ HasPlus(g)
        /\ Len(OffsetText(g)) = 3
        /\ result[1].error = "zczcnotfound"

-----------------------------------------------------------------------------
(* C2, as claimed: a header that passes the first five checks and has no   *)
(* '+'-bearing segment, or whose text after '+' is not 4 characters long,  *)
(* fails with ExpireTimeInvalid, whatever its issue time.                  *)
C2_OffsetBeforeIssueTime ==
    LET g == Segs
    IN  (Decoded /\ FrontValid(g) /\ (~HasPlus(g) \/ Len(OffsetText(g)) # 4))
            => result[1].error = "expiretimeinvalid"

(* C2, amended: with no '+'-bearing segment or nothing after '+' the       *)
(* header fails with ExpireTimeInvalid whatever its issue time; with a     *)
(* non-empty offset that is not 4 characters long it fails with            *)
(* DateTimeInvalid when the issue-time segment is missing, not 7           *)
(* characters long or has a Julian day outside the year, and with          *)
(* ExpireTimeInvalid otherwise: the length of the offset is checked after  *)
(* the issue time (and before the locations).                              *)
C2_OffsetLengthAfterIssueTime ==
    LET g == Segs
        o == OffsetText(g)
        t == IssueText(g)
    IN  (Decoded /\ FrontValid(g)) =>
            IF ~HasPlus(g) \/ o = <<>>
            THEN result[1].error = "expiretimeinvalid"
            ELSE Len(o) # 4 =>
                    result[1].error =
                        IF Len(t) # 7 \/ JulianOutOfRange(t, env[1].year)
                        THEN "datetimeinvalid"
                        ELSE "expiretimeinvalid"

\* a 3-character offset and a 3-character issue time: DateTimeInvalid
C2_Witness ==
    LET g == Segs
    IN  /\ Decoded
        /\ FrontValid(g)
        /\ HasPlus(g)
        /\ Len(OffsetText(g)) = 3
        /\ Len(IssueText(g)) = 3
        /\ result[1].error = "datetimeinvalid"

-----------------------------------------------------------------------------
(* C3: with a 4-character offset, decodeSame fails with DateTimeInvalid    *)
(* exactly when the issue-time segment is missing or not 7 characters      *)
(* long, or its Julian day (its first 3 digits) is outside 1..365, or      *)
(* outside 1..366 in a leap year of the Gregorian calendar; day 366 is     *)
(* accepted exactly in a leap year and day 000 never.                      *)
C3_JulianDayRange ==
    LET g == Segs
        t == IssueText(g)
    IN  (Decoded /\ FrontValid(g) /\ HasPlus(g) /\ Len(OffsetText(g)) = 4
            /\ (Len(t) # 7 \/ ThreeDigits(t)))
            => (result[1].error = "datetimeinvalid"
                    <=> \/ Len(t) # 7
                        \/ DayNumber(t) < 1
                        \/ DayNumber(t) > LastDay(env[1].year))

\* day 366 of a leap year was accepted
C3_Witness ==
    LET g == Segs
        t == IssueText(g)
    IN  /\ Decoded
        /\ FrontValid(g)
        /\ HasPlus(g)
        /\ Len(OffsetText(g)) = 4
        /\ Len(t) = 7
        /\ ThreeDigits(t)
        /\ DayNumber(t) = 366
        /\ GregorianLeap(env[1].year)
        /\ result[1].ok

-----------------------------------------------------------------------------
(* C4, as claimed: in a header that is valid up to its locations,          *)
(* decodeSame accepts the location codes if and only if translateFips      *)
(* accepts each of them, and answers FipsInvalid otherwise.                *)
C4_DecoderAgreesWithTranslateFips ==
    LET g == Segs
        t == IssueText(g)
        c == LocationCodes(g)
    IN  (Decoded /\ FrontValid(g) /\ HasPlus(g) /\ Len(OffsetText(g)) = 4
            /\ Len(t) = 7 /\ ~JulianOutOfRange(t, env[1].year))
            => /\ result[1].ok <=>
                    \A i \in DOMAIN c : translateFips(SUBDIV, StringValue(c[i])).ok
               /\ ~result[1].ok => result[1].error = "fipsinvalid"

-----------------------------------------------------------------------------
(* C5: the locations text of an accepted header with k location segments   *)
(* is the '; '-join of k entries, the i-th being the rendering of the i-th *)
(* location code of the header.                                            *)
C5_LocationsInOrder ==
    LET c == LocationCodes(Segs)
    IN  (Decoded /\ result[1].ok) =>
            /\ \A i \in DOMAIN c : locationOf(SUBDIV, c[i]).ok
            /\ result[1].value.locations =
                   JoinStr([i \in DOMAIN c |-> locationOf(SUBDIV, c[i]).value], "; ")

\* an accepted header with two different location codes
C5_Witness ==
    LET c == LocationCodes(Segs)
    IN  /\ Decoded
        /\ result[1].ok
        /\ Len(c) = 2
        /\ c[1] = <<"1", "0", "6", "0", "8", "1">>
        /\ c[2] = <<"0", "2", "7", "1", "3", "3">>
        /\ SUBDIV = SubdivFull
        /\ result[1].value.locations = "Northwest San Mateo, CA; Rock, MN"

-----------------------------------------------------------------------------
(* C6: when exactly one segment S follows the issue time of an accepted    *)
(* header, the sender is S unchanged, '/' included.                        *)
C6_SingleSegmentSender ==
    LET g == Segs
    IN  (Decoded /\ result[1].ok /\ Len(g) = PlusAt(g) + 2)
            => result[1].value.sender = Str(g[PlusAt(g) + 2])

C6_Witness ==
    LET g == Segs
    IN  /\ Decoded
        /\ result[1].ok
        /\ Len(g) = PlusAt(g) + 2
        /\ result[1].value.sender = "ERN/CRTV"

-----------------------------------------------------------------------------
(* C7, as claimed: two executions on the same header in the same current   *)
(* year return identical results, whatever their time zones, locales and   *)
(* times of day.                                                           *)
BothDecoded == pc = "done" /\ result[1] # NotCalled /\ result[2] # NotCalled

C7_SameResultInAnyZone ==
    (BothDecoded /\ env[1].year = env[2].year) => result[1] = result[2]

(* C7, amended: two executions on the same header in the same current year *)
(* throw the same error or return the same organization, event, locations  *)
(* and sender; when they also run in the same time zone and locale they    *)
(* return identical results (timing.start, timing.end and formatted        *)
(* included), whatever the time of day of each.                            *)
C7_SameResultInSameZone ==
    (BothDecoded /\ env[1].year = env[2].year) =>
        /\ result[1].ok = result[2].ok
        /\ result[1].error = result[2].error
        /\ result[1].detail = result[2].detail
        /\ result[1].ok =>
            /\ result[1].value.organization = result[2].value.organization
            /\ result[1].value.event = result[2].value.event
            /\ result[1].value.locations = result[2].value.locations
            /\ result[1].value.sender = result[2].value.sender
        /\ (env[1].tz = env[2].tz /\ env[1].locale = env[2].locale)
            => result[1] = result[2]

\* two accepting executions east of Greenwich at different times of day
C7_Witness ==
    /\ BothDecoded
    /\ env[1].year = env[2].year
    /\ env[1].tz = 120
    /\ env[2].tz = 120
    /\ env[1].locale = env[2].locale
    /\ env[1].minute # env[2].minute
    /\ result[1].ok
    /\ result[2].ok

-----------------------------------------------------------------------------
(* C8, as claimed: translateFips answers NoData to a non-string or blank   *)
(* input, FipsInvalid to a string whose length is not 6, and               *)
(* InvalidCharacters to a 6-character string with a non-digit in it.       *)
Translated == pc = "done" /\ fipsOut # NotCalled

C8_MalformedInputByKind ==
    Translated =>
        IF IsNoData(fipsIn) THEN fipsOut.error = "nodata"
        ELSE IF Len(fipsIn.s) # 6 THEN fipsOut.error = "fipsinvalid"
        ELSE (\E i \in 1..6 : ~IsDigit(fipsIn.s[i]))
                => fipsOut.error = "invalidcharacters"

-----------------------------------------------------------------------------
(* C9, as claimed: for a 6-digit input, an unknown county code fails with  *)
(* FipsInvalid and a message that includes the code, before the            *)
(* subdivision is looked at; a known county with a subdivision digit that  *)
(* is not '0' and not in SUBDIV fails with SubdivisionInvalid; '0' never   *)
(* does.                                                                   *)
CountyCode == Str(SubSeq(fipsIn.s, 2, 6))

SubdivisionDigit == fipsIn.s[1]

C9_UnknownCountyNamesTheCode ==
    (Translated /\ fipsIn.type = "string" /\ IsSixDigits(fipsIn.s)) =>
        /\ CountyCode \notin DOMAIN SAME =>
            /\ fipsOut.error = "fipsinvalid"
            /\ fipsOut.detail # ""
        /\ (CountyCode \in DOMAIN SAME /\ SubdivisionDigit # "0"
                /\ SubdivisionDigit \notin DOMAIN SUBDIV)
            => fipsOut.error = "subdivisioninvalid"
        /\ SubdivisionDigit = "0" => fipsOut.error # "subdivisioninvalid"

(* C9, amended: the same, except that the FipsInvalid message of           *)
(* translateFips is the bare message and does not include the code.        *)
C9_UnknownCountyBareMessage ==
    (Translated /\ fipsIn.type = "string" /\ IsSixDigits(fipsIn.s)) =>
        /\ CountyCode \notin DOMAIN SAME =>
            /\ fipsOut.error = "fipsinvalid"
            /\ fipsOut.detail = ""
        /\ (CountyCode \in DOMAIN SAME /\ SubdivisionDigit # "0"
                /\ SubdivisionDigit \notin DOMAIN SUBDIV)
            => fipsOut.error = "subdivisioninvalid"
        /\ SubdivisionDigit = "0" => fipsOut.error # "subdivisioninvalid"

\* an unknown county under a subdivision digit the table lacks: FipsInvalid
C9_Witness ==
    /\ Translated
    /\ fipsIn.type = "string"
    /\ IsSixDigits(fipsIn.s)
    /\ CountyCode \notin DOMAIN SAME
    /\ SubdivisionDigit # "0"
    /\ SubdivisionDigit \notin DOMAIN SUBDIV
    /\ fipsOut.error = "fipsinvalid"

-----------------------------------------------------------------------------
(* C10: an accepted input gives county = the text before the comma,        *)
(* subdivision = SUBDIV[data[0]] ('All' for '0' when SUBDIV has no '0');   *)
(* a county code that ends with '000' gives region = county and formatted  *)
(* = '{subdivision} of {county}', any other gives region = the text after  *)
(* the comma and formatted = '{subdivision} {county}, {region}'.           *)
CountyName ==
    ("30013" :> "Cascade") @@ ("27133" :> "Rock") @@ ("06081" :> "San Mateo") @@
    ("30000" :> "Montana")

StateName ==
    ("30013" :> "MT") @@ ("27133" :> "MN") @@ ("06081" :> "CA")

C10_Record ==
    (Translated /\ fipsOut.ok) =>
        LET v == fipsOut.value
            sub == IF SubdivisionDigit \in DOMAIN SUBDIV THEN SUBDIV[SubdivisionDigit]
                   ELSE "All"
        IN  /\ v.county = CountyName[CountyCode]
            /\ v.subdivision = sub
            /\ IF fipsIn.s[4] = "0" /\ fipsIn.s[5] = "0" /\ fipsIn.s[6] = "0"
               THEN /\ v.region = v.county
                    /\ v.formatted = sub \o " of " \o v.county
               ELSE /\ v.region = StateName[CountyCode]
                    /\ v.formatted = sub \o " " \o v.county \o ", " \o v.region

\* the state-wide code 030000 was translated
C10_Witness ==
    /\ Translated
    /\ fipsOut.ok
    /\ CountyCode = "30000"
    /\ fipsOut.value.formatted = "All of Montana"

-----------------------------------------------------------------------------
(* C11, as claimed: origTranslator answers NoData for a non-string or      *)
(* blank argument, else OriginatorInvalid for a length other than 3, else  *)
(* InvalidCharacters (never OriginatorInvalid) when one of the 3           *)
(* characters is not a letter, else looks the upper-cased code up and      *)
(* answers OriginatorInvalid when it is absent.                            *)
C11_OrigClassification ==
    origOut # NotCalled =>
        IF IsNoData(codeIn) THEN origOut.error = "nodata"
        ELSE IF Len(codeIn.s) # 3 THEN origOut.error = "originvalid"
        ELSE IF \E i \in 1..3 : ~IsLetter(codeIn.s[i])
             THEN origOut.error = "invalidcharacters"
        ELSE IF Str(ToUpperCase(codeIn.s)) \in DOMAIN ORGS2
             THEN origOut = Returned(ORGS2[Str(ToUpperCase(codeIn.s))])
        ELSE origOut.error = "originvalid"

(* C12: eventTranslator answers NoData for a non-string or blank argument, *)
(* else EventInvalid for a length other than 3, else InvalidCharacters     *)
(* when one of the 3 characters is not a letter, else the phrase of the    *)
(* code in EVENTS, in either letter case, or EventInvalid when the code is *)
(* absent.                                                                 *)
C12_EventClassification ==
    eventOut # NotCalled =>
        IF codeIn.type # "string" THEN eventOut.error = "nodata"
        ELSE IF \A i \in 1..Len(codeIn.s) : codeIn.s[i] = " "
             THEN eventOut.error = "nodata"
        ELSE IF Len(codeIn.s) # 3 THEN eventOut.error = "eventinvalid"
        ELSE IF \E i \in 1..3 : ~IsLetter(codeIn.s[i])
             THEN eventOut.error = "invalidcharacters"
        ELSE IF Str(ToUpperCase(codeIn.s)) \in DOMAIN EVENTS
             THEN /\ eventOut.ok
                  /\ eventOut.value = EVENTS[Str(ToUpperCase(codeIn.s))]
        ELSE eventOut.error = "eventinvalid"

\* a known event code given in lower case was translated
C12_Witness ==
    /\ codeIn = StringValue(<<"t", "O", "R">>)
    /\ eventOut = Returned("Tornado Warning")

-----------------------------------------------------------------------------
(* What the claims on the generator speak of. *)

Silence(n) == <<[k |-> "silence", n |-> n]>>

\* the payload of the header: sixteen 0xAB, then the message
Payload(a) == [i \in 1..16 |-> 171] \o a.zczcMessage

\* bit j (from 0, the least significant) of a byte
BitOf(byte, j) == (byte \div (2 ^ j)) % 2

\* the tones of a sequence of bytes, least significant bit first
TonesOf(bytes) ==
    [i \in 1..(8 * Len(bytes)) |->
        [k |-> IF BitOf(bytes[((i - 1) \div 8) + 1], (i - 1) % 8) = 1
               THEN "mark" ELSE "space",
         n |-> 46]]

AllBytes(chars) == \A i \in 1..Len(chars) : chars[i] <= 255

\* call c returned a buffer
ReturnedBuffer(c) == gen[c].at = "done" /\ genOut[c].ok

\* call c logged this diagnostic
Logged(c, text) ==
    \E i \in 1..Len(effects) : effects[i] = Effect(c, "console.error", text)

ConversionFailed(c) == Logged(c, "Error during audio conversion")

ExportFailed(c) == Logged(c, "Error during MP3 conversion")

IsNarration(run) == run.k \notin {"silence", "mark", "space", "1050 Hz", "853 Hz + 960 Hz"}

(* C13: the buffer returned by generateEASAlert is silence(24000), the     *)
(* header transmission, silence(3600) in TRILITHIC mode and silence(12000) *)
(* otherwise, the attention tone and silence(24000) iff the tone is        *)
(* enabled, the narration and silence(24000) iff the narration is not      *)
(* empty, the EOM and silence(24000), in this order and nothing else: its  *)
(* length is the sum of the lengths of these segments, and it begins and   *)
(* ends with at least 24000 zero samples.                                  *)
C13_Layout ==
    \A c \in DOMAIN genOut :
        ReturnedBuffer(c) =>
            LET a == args[c]
                m == gen[c].mode
                out == genOut[c].value
                narration == gen[c].audioBuffer
                segments ==
                    <<Silence(24000), encodeHeader(Payload(a), m),
                      Silence(IF m = "TRILITHIC" THEN 3600 ELSE 12000)>>
                    \o (IF a.attentionTone # "false"
                        THEN <<createAttentionTone(m), Silence(24000)>> ELSE <<>>)
                    \o (IF narration # <<>>
                        THEN <<narration, Silence(24000)>> ELSE <<>>)
                    \o <<createEOM(m), Silence(24000)>>
            IN  /\ out = concatAudio(segments)
                /\ length(out) = samplesIn([i \in 1..Len(segments) |->
                                               [n |-> length(segments[i])]],
                                           1, Len(segments))
                /\ out[1].k = "silence" /\ out[1].n = 24000
                /\ out[Len(out)].k = "silence" /\ out[Len(out)].n >= 24000

\* a TRILITHIC alert with attention tone and narration was returned
C13_Witness ==
    /\ ReturnedBuffer(1)
    /\ gen[1].mode = "TRILITHIC"
    /\ args[1].attentionTone = "undefined"
    /\ gen[1].audioBuffer # <<>>

(* C14: every byte of the payload is sent as 8 tones, its bits from the    *)
(* least significant one, a mark for 1 and a space for 0: after the first  *)
(* 24000 zero samples (and, in DIGITAL mode, the 8 spaces of the leading   *)
(* 0x00) come 16 times mark, mark, space, mark, space, mark, space, mark,  *)
(* then the 8 tones of the first character of the message.                 *)
C14_LsbFirst ==
    \A c \in DOMAIN genOut :
        ReturnedBuffer(c) =>
            LET out == genOut[c].value
                lead == IF gen[c].mode = "DIGITAL" THEN <<0>> ELSE <<>>
                bytes == lead \o Payload(args[c])
                ab == <<"mark", "mark", "space", "mark", "space", "mark", "space", "mark">>
            IN  /\ \A i \in 1..128 :
                      out[1 + 8 * Len(lead) + i] = [k |-> ab[((i - 1) % 8) + 1], n |-> 46]
                /\ AllBytes(args[c].zczcMessage) =>
                       SubSeq(out, 2, 1 + 8 * Len(bytes)) = TonesOf(bytes)

\* a DEFAULT alert for the message 'Z' was returned
C14_Witness ==
    /\ ReturnedBuffer(1)
    /\ gen[1].mode = "DEFAULT"
    /\ args[1].zczcMessage = <<90>>

C16_DigitalBursts ==
    \A c \in DOMAIN genOut :
        (ReturnedBuffer(c) /\ gen[c].mode = "DIGITAL"
            /\ AllBytes(args[c].zczcMessage)) =>
            LET out == genOut[c].value
                firstBurst == TonesOf(<<0>> \o Payload(args[c]) \o <<255, 255, 255>>)
                standardBurst ==
                    TonesOf(<<171>> \o args[c].zczcMessage \o <<255, 255, 255>>)
                expected == Silence(24000) \o firstBurst \o Silence(24000)
                            \o standardBurst \o Silence(24000) \o standardBurst
                            \o Silence(12000)
            IN  SubSeq(out, 1, Len(expected)) = expected

(* C17: with the attention tone enabled the returned buffer is the buffer  *)
(* of the same call with the tone disabled, plus the tone and 24000 zero   *)
(* samples put after the silence that follows the header: it is longer by  *)
(* 216000 + 24000 samples in NWS mode and by 192000 + 24000 in every other *)
(* mode.                                                                   *)
C17_ToneLength ==
    \A c \in DOMAIN genOut :
        (ReturnedBuffer(c) /\ args[c].attentionTone # "false") =>
            LET m == gen[c].mode
                on == genOut[c].value
                off == assemble(args[c].zczcMessage, m, FALSE, gen[c].audioBuffer)
                tone == IF m = "NWS" THEN 216000 ELSE 192000
                tones == {j \in 1..Len(on) : on[j].k \in {"1050 Hz", "853 Hz + 960 Hz"}}
            IN  /\ length(on) = length(off) + tone + 24000
                /\ Cardinality(tones) = 1
                /\ \A i \in tones :
                      /\ on[i].n = tone
                      /\ on[i].k = IF m = "NWS" THEN "1050 Hz" ELSE "853 Hz + 960 Hz"
                      /\ on[i - 1].k = "silence"
                      /\ on[i + 1] = Silence(24000)[1]
                      /\ SubSeq(on, 1, i - 1) = SubSeq(off, 1, i - 1)
                      /\ SubSeq(on, i + 2, Len(on)) = SubSeq(off, i, Len(off))

\* an NWS alert with the attention tone was returned
C17_Witness ==
    /\ ReturnedBuffer(1)
    /\ gen[1].mode = "NWS"
    /\ args[1].attentionTone = "undefined"

(* C18: when audioPath is a non-blank string that names no file, the call  *)
(* fails with AudioFileNotFound, and has then launched no transcoder and   *)
(* written no temporary or output file; when audioPath is not given, null  *)
(* or blank, the call returns a buffer with no narration in it.            *)
C18_MissingFile ==
    \A c \in DOMAIN genOut :
        gen[c].at = "done" =>
            LET p == args[c].audioPath
                named == p.type = "string" /\ \E i \in 1..Len(p.s) : p.s[i] # " "
            IN  /\ (named /\ ~existsSync(disk, Str(p.s))) =>
                       /\ genOut[c] = Threw("audioFileNotFound", "")
                       /\ effects = <<>>
                       /\ disk = Disk
                /\ ~named =>
                       /\ genOut[c].ok
                       /\ \A i \in 1..Len(genOut[c].value) :
                              ~IsNarration(genOut[c].value[i])
                /\ genOut[c].error = "audioFileNotFound" => named

\* a call that names a missing file has failed
C18_Witness ==
    /\ gen[1].at = "done"
    /\ args[1].audioPath = StringValue(MissingPath)
    /\ genOut[1] = Threw("audioFileNotFound", "")

C20_NoTemporaryFileLeft ==
    \A c \in DOMAIN genOut :
        gen[c].at = "done" =>
            /\ ~existsSync(disk, tempConversion)
            /\ ~existsSync(disk, tempExport)
            /\ \A i \in 1..Len(effects) :
                  (effects[i].op = "write" /\ effects[i].path = tempExport) =>
                      \E j \in (i + 1)..Len(effects) :
                          effects[j] = Effect(effects[i].call, "unlink", tempExport)

\* a call has settled after both transcoders failed
C20_Witness ==
    /\ gen[1].at = "done"
    /\ ConversionFailed(1)
    /\ ExportFailed(1)

-----------------------------------------------------------------------------
\* the name of the output file ends with '.mp3', in any letter case
EndsMp3(o) ==
    LET f == outputFileOf(o).s
        n == Len(f)
    IN  /\ n >= 4
        /\ f[n - 3] = "."
        /\ f[n - 2] \in {"m", "M"}
        /\ f[n - 1] \in {"p", "P"}
        /\ f[n] = "3"

\* the mode a mode option stands for
CanonicalMode(o) ==
    IF o = Undefined THEN "DEFAULT"
    ELSE LET names == {m.s : m \in ModeOptions \ {Undefined}}
         IN  Str(CHOOSE m \in names :
                    /\ \A i \in 1..Len(m) : IsUpper(m[i])
                    /\ ToLowerCase(m) = ToLowerCase(o.s))

(* C22, as claimed: after a call that returned, the file named by          *)
(* outputFile ('output.wav' when not given) exists, an MP3 file when the   *)
(* name ends with '.mp3' in any letter case and a WAV file otherwise.      *)
C22_OutputFileExists ==
    \A c \in DOMAIN genOut :
        ReturnedBuffer(c) =>
            LET f == Str(outputFileOf(args[c].outputFile).s)
            IN  /\ existsSync(disk, f)
                /\ disk[f].type = IF EndsMp3(args[c].outputFile) THEN "mp3" ELSE "wav"

(* C22, amended: after a call that returned, the file named by outputFile  *)
(* exists as a WAV file of the returned samples when the name does not end *)
(* with '.mp3'; when it does, in any letter case, no WAV file of that name *)
(* is written, and the file exists as an MP3 file of the returned samples  *)
(* if the MP3 transcoder did not fail.                                     *)
C22_OutputFileUnlessExportFailed ==
    \A c \in DOMAIN genOut :
        ReturnedBuffer(c) =>
            LET f == Str(outputFileOf(args[c].outputFile).s)
                written == [type |-> IF EndsMp3(args[c].outputFile) THEN "mp3" ELSE "wav",
                            buffer |-> genOut[c].value]
            IN  /\ ~ExportFailed(c) => disk[f] = written
                /\ ExportFailed(c) => EndsMp3(args[c].outputFile) /\ disk[f].type # "wav"

\* a call with an upper-case MP3 name returned and its file is there
C22_Witness ==
    /\ ReturnedBuffer(1)
    /\ args[1].outputFile = StringValue(<<"a", ".", "M", "P", "3">>)
    /\ disk["a.MP3"].type = "mp3"

(* C23: a call whose mode is given in lower case returns the buffer of the *)
(* call with the upper-case mode name, and a call with no mode returns the *)
(* buffer of the call with mode DEFAULT.                                   *)
C23_ModeAnyCase ==
    \A c \in DOMAIN genOut :
        ReturnedBuffer(c) =>
            LET o == args[c].mode
                m == CanonicalMode(o)
            IN  /\ gen[c].mode = m
                /\ (o = Undefined \/ Str(o.s) # m) =>
                       genOut[c].value =
                           assemble(args[c].zczcMessage, m,
                                    attentionToneOf(args[c].attentionTone),
                                    gen[c].audioBuffer)

\* a call with mode 'nws' returned
C23_Witness ==
    /\ ReturnedBuffer(1)
    /\ args[1].mode = StringValue(<<"n", "w", "s">>)
    /\ \E i \in 1..Len(genOut[1].value) : genOut[1].value[i].k = "1050 Hz"

(* C24, as claimed: in every mode the EOM of the returned buffer is the    *)
(* header transmission of the payload sixteen 0xAB then 'NNNN' in that     *)
(* mode, DIGITAL included.                                                 *)
C24_EomIsHeaderOfNNNN ==
    \A c \in DOMAIN genOut :
        ReturnedBuffer(c) =>
            LET out == genOut[c].value
                eom == concat2(encodeHeader([i \in 1..16 |-> 171] \o <<78, 78, 78, 78>>,
                                            gen[c].mode),
                               Silence(24000))
            IN  /\ Len(out) > Len(eom)
                /\ SubSeq(out, Len(out) - Len(eom) + 1, Len(out)) = eom
                /\ out[Len(out) - Len(eom)].k # "silence"
                   \/ out[Len(out) - Len(eom) + 1].k # "silence"

(* C29: a mark and a space are 46 samples each, so the first burst of the  *)
(* header, a frame of n characters up to 0xFF, is 8 n tones of 46 samples, *)
(* 368 n samples, whatever the bits: 368 (16 + L) in DEFAULT mode for a    *)
(* message of L characters.                                                *)
C29_BurstLength ==
    \A c \in DOMAIN genOut :
        (ReturnedBuffer(c) /\ AllBytes(args[c].zczcMessage)) =>
            LET out == genOut[c].value
                m == gen[c].mode
                n == 16 + Len(args[c].zczcMessage)
                       + (IF m = "NWS" THEN 2 ELSE IF m = "SAGE" THEN 1
                          ELSE IF m = "DIGITAL" THEN 4 ELSE 0)
            IN  /\ \A i \in 2..(1 + 8 * n) :
                      out[i].k \in {"mark", "space"} /\ out[i].n = 46
                /\ out[2 + 8 * n].k = "silence"
                /\ samplesIn(out, 2, 1 + 8 * n) = 368 * n

\* an NWS alert for the message 'Z' was returned
C29_Witness ==
    /\ ReturnedBuffer(1)
    /\ gen[1].mode = "NWS"
    /\ args[1].zczcMessage = <<90>>
    /\ \E i \in 2..137 : genOut[1].value[i].k = "space"

(* C30, as claimed: every character of the message is sent as 8 tones      *)
(* carrying the low 8 bits of its code, also when the code is above 0xFF.  *)
C30_LowEightBits ==
    \A c \in DOMAIN genOut :
        (ReturnedBuffer(c) /\ gen[c].mode = "DEFAULT") =>
            LET out == genOut[c].value
                msg == args[c].zczcMessage
                low == [i \in 1..Len(msg) |-> msg[i] % 256]
            IN  /\ SubSeq(out, 130, 129 + 8 * Len(msg)) = TonesOf(low)
                /\ out[130 + 8 * Len(msg)].k = "silence"

-----------------------------------------------------------------------------
(* C25, as claimed: the sender of an accepted header is the segments after *)
(* the issue time joined with '-' without the first fragment of that tail: *)
(* 'TV' for the tail 'KABC-TV'.                                            *)
C25_SenderWithoutFirstFragment ==
    LET g == Segs
    IN  (Decoded /\ result[1].ok) =>
            result[1].value.sender = Str(Join(SubSeq(g, PlusAt(g) + 3, Len(g)), <<"-">>))

(* C25, amended: the sender of an accepted header is the segments after    *)
(* the issue time joined with '-'; the fragment that is discarded is the   *)
(* issue time itself: 'KABC-TV' for the tail 'KABC-TV'.                    *)
C25_SenderIsWholeTail ==
    LET g == Segs
    IN  (Decoded /\ result[1].ok) =>
            result[1].value.sender = Str(Join(SubSeq(g, PlusAt(g) + 2, Len(g)), <<"-">>))

\* an accepted header with the tail 'KABC-TV'
C25_Witness ==
    LET g == Segs
    IN  /\ Decoded
        /\ result[1].ok
        /\ Len(g) = PlusAt(g) + 3
        /\ g[Len(g) - 1] = <<"K", "A", "B", "C">>
        /\ result[1].value.sender = "KABC-TV"

-----------------------------------------------------------------------------
AllDigits(t) == \A i \in 1..Len(t) : IsDigit(t[i])

TwoDigits(t, i) == 10 * DigitVal(t[i]) + DigitVal(t[i + 1])

\* the header was accepted and its issue time and offset are all digits
AcceptedWithDigits ==
    /\ Decoded
    /\ result[1].ok
    /\ AllDigits(IssueText(Segs))
    /\ AllDigits(OffsetText(Segs))

\* the instants the decoder reconstructs before it formats them
Instants == parseFipsAndTime(SUBDIV, Segs, env[1]).value

(* C26, as claimed: the start of an accepted header with issue time        *)
(* DDDHHMM, HH up to 23 and MM up to 59, is HH:MM UTC on day DDD of the    *)
(* current year, in every time zone of the process.                        *)
C26_StartIsUtcOfDay ==
    LET t == IssueText(Segs)
    IN  (AcceptedWithDigits /\ TwoDigits(t, 4) <= 23 /\ TwoDigits(t, 6) <= 59) =>
            LET utc == <<(DayNumber(t) - 1) * MinutesPerDay
                          + TwoDigits(t, 4) * 60 + TwoDigits(t, 6)>>
            IN  /\ Instants.startTime = utc
                /\ result[1].value.timing.start = formatTime(utc, env[1])

(* C27: the end of an accepted header with purge offset HHMM is its start  *)
(* plus HH * 60 + MM minutes, for HH and MM up to 99, across midnight and  *)
(* across the end of the year.                                             *)
C27_EndIsStartPlusOffset ==
    LET o == OffsetText(Segs)
    IN  AcceptedWithDigits =>
            LET sum == <<Instants.startTime[1] + TwoDigits(o, 1) * 60 + TwoDigits(o, 3)>>
            IN  /\ Instants.endTime = sum
                /\ result[1].value.timing.end = formatTime(sum, env[1])

\* an alert of the last minute of 2025 with 99 minutes in its offset
C27_Witness ==
    /\ AcceptedWithDigits
    /\ env[1].year = 2025
    /\ env[1].tz = 0
    /\ env[1].locale = "en-US"
    /\ IssueText(Segs) = <<"3", "6", "5", "2", "3", "5", "9">>
    /\ OffsetText(Segs) = <<"0", "1", "9", "9">>
    /\ result[1].value.timing.end = "2:38 AM on January 1"

(* C28, as claimed: the issue time of an accepted header is 7 digits with  *)
(* the hour up to 23 and the minute up to 59, its offset is 4 digits, and  *)
(* its timing texts are those of dates.                                    *)
C28_TimeFieldsAreDigits ==
    LET t == IssueText(Segs)
        o == OffsetText(Segs)
    IN  (Decoded /\ result[1].ok) =>
            /\ Len(t) = 7 /\ AllDigits(t)
            /\ TwoDigits(t, 4) <= 23
            /\ TwoDigits(t, 6) <= 59
            /\ Len(o) = 4 /\ AllDigits(o)
            /\ result[1].value.timing.start # "Invalid Date on Invalid Date NaN"
            /\ result[1].value.timing.end # "Invalid Date on Invalid Date NaN"

-----------------------------------------------------------------------------
\* the narrations in a buffer
NarrationsIn(buffer) == {buffer[i].k : i \in {j \in DOMAIN buffer : IsNarration(buffer[j])}}

(* C21, as claimed: when two calls with different narration files and      *)
(* different output files have been in flight together and the transcoder  *)
(* never failed on its own, each call has returned a buffer with its own   *)
(* narration and no other, each MP3 output holds the samples its call      *)
(* returned, and no error was logged, in every interleaving.               *)
C21_Reentrant ==
    pc = "done" =>
        /\ \A i \in DOMAIN effects : effects[i].op # "console.error"
        /\ \A c \in DOMAIN genOut :
            /\ genOut[c].ok
            /\ NarrationsIn(genOut[c].value) = {"narration " \o Str(args[c].audioPath.s)}
            /\ outputIsMp3(args[c].outputFile) =>
                    disk[Str(args[c].outputFile.s)]
                        = [type |-> "mp3", buffer |-> genOut[c].value]

=============================================================================
